---------------------------- MODULE Spec2Model ----------------------------
(***************************************************************************)
(* Service registry (src/unnamed/part_000) and API gateway                 *)
(* (src/unnamed/part_001) of lista-compras-microservices.                  *)
(*                                                                         *)
(* Time is in milliseconds, as Date.now() gives it.  A JavaScript object   *)
(* is a function whose DOMAIN is the set of its own keys.  An async        *)
(* handler is one action per synchronous stretch between two awaits.       *)
(***************************************************************************)
EXTENDS Integers, Sequences, FiniteSets, TLC

(***************************************************************************)
(* Bounds of the model.                                                    *)
(***************************************************************************)
\* number of clock advances in one behaviour
MaxTicks == 2
\* number of failed writes of the registry file in one behaviour
MaxWriteFailures == 1
\* number of proxied requests awaiting their downstream answer at once
MaxInFlight == 2
\* cap on a breaker's failure counter (the code's counter is unbounded)
MaxFailures == 4

(***************************************************************************)
(* Program constants.                                                      *)
(***************************************************************************)
\* part_001:215  timeSinceLastFailure > 30000
CooldownMs == 30000
\* part_001:269  failures >= 3
FailureThreshold == 3
\* part_001:249  timeout of a proxied call
ProxyTimeoutMs == 10000
\* part_001:148  timeout of a status probe
ProbeTimeoutMs == 3000
\* part_001:308  timeout of an aggregator sub-call
AggTimeoutMs == 5000
\* part_000:103  diffMinutes > 2
TtlMinutes == 2
\* part_000:100  (1000 * 60)
MsPerMinute == 1000 * 60
\* part_001:465  period of the health-check interval
HealthIntervalMs == 30000
\* part_000:124  period of the cleanup interval
CleanupIntervalMs == 60000

\* the names the gateway routes to and keeps a breaker for (part_001:50-54)
ServiceNames == {"user-service", "item-service", "list-service"}

\* the process starts at some wall-clock time well after the epoch
StartTime == 500 * 1000

\* how far one clock advance can move the clock
Deltas == {1, CooldownMs}

\* the serviceInfo objects callers register; the last one carries a key
\* that collides with the registry's own bookkeeping
Infos ==
  { [url |-> "http://localhost:3001"],
    [url |-> "http://localhost:3002", version |-> "1.0.0", healthy |-> FALSE] }

\* ages (ms) of the records found in the registry file at start-up
InitAges == {0, 119000, 120000, 121000}

\* the names used against the registry alone: one the gateway routes to
\* and one it does not know
RegistryNames == {"user-service", "pricing-service"}

AllNames == ServiceNames \cup RegistryNames

\* the services the modelled proxied traffic is addressed to
TrafficNames == {"user-service"}

\* what a backend can answer to a forwarded request: a 2xx response, a
\* response with an error status, or nothing (connection error, timeout)
Answers ==
  { [kind |-> "ok", status |-> 200],
    [kind |-> "http", status |-> 404],
    [kind |-> "net", status |-> 0] }

VARIABLES
  now,              \* the wall clock, Date.now()
  ticks,            \* clock advances so far
  services,         \* ServiceRegistry.services: name -> record
  disk,             \* content of service-registry.json
  writeFailures,    \* failed writes of the file so far
  gate,             \* history: name -> what followed its last updateHealth(name, false)
  circuitBreakers,  \* ApiGateway.circuitBreakers: name -> {failures, state, lastFailure}
  proxied,          \* proxied requests awaiting axios, in order of dispatch
  statusReq,        \* the GET /health handler: snapshot left to probe, probe in flight
  supervisor,       \* the health-check interval callback: the same
  supDue,           \* when the health-check interval fires next
  reapDue,          \* when the cleanup interval fires next
  dash,             \* the GET /api/dashboard handler: where it waits, what it called
  search,           \* the GET /api/search handler: where it waits, its results so far
  snapshot,         \* an object getAllServices() returned, as its holder sees it
  streak,           \* history: name -> failed proxied calls in a row since CLOSED/0
  recent,           \* history: how the last proxied calls to each service ended
  last              \* the last operation and what it returned or answered

regVars == <<services, disk, writeFailures, gate>>
gwVars == <<circuitBreakers, proxied, statusReq, streak, recent>>
timerVars == <<supervisor, supDue, reapDue>>
aggVars == <<dash, search>>
snapVars == <<snapshot>>
vars == <<now, ticks, services, disk, writeFailures, gate,
          circuitBreakers, proxied, statusReq, streak, recent,
          supervisor, supDue, reapDue, dash, search, snapshot, last>>

(***************************************************************************)
(* Date <-> ISO-8601 string.  toISOString() prints whole seconds and a     *)
(* three-digit millisecond field; new Date(string) reads both back.        *)
(***************************************************************************)
toISOString(t) == [sec |-> t \div 1000, ms |-> t % 1000]

parseDate(s) == s.sec * 1000 + s.ms

\* { ...a, ...b }: the keys of both, b's value where both have the key
Spread(a, b) ==
  [k \in (DOMAIN a) \cup (DOMAIN b) |-> IF k \in DOMAIN b THEN b[k] ELSE a[k]]

\* delete obj[key]
Delete(obj, keys) == [k \in (DOMAIN obj) \ keys |-> obj[k]]

\* what JavaScript's null is here
Null == [null |-> TRUE]

(***************************************************************************)
(* ServiceRegistry                                                         *)
(***************************************************************************)
\* fs.writeJsonSync inside try/catch: the file takes the new content, or
\* the write throws, the error is logged, and the file is left as it was
saveRegistry(content, ok) ==
  /\ ok \/ writeFailures < MaxWriteFailures
  /\ disk' = IF ok THEN content ELSE disk
  /\ writeFailures' = IF ok THEN writeFailures ELSE writeFailures + 1

\* no write is attempted
NoSave == UNCHANGED <<disk, writeFailures>>

\* faulty variant: the caller's keys spread last, over the bookkeeping
NewRecord_InfoLast(serviceInfo, t) ==
  Spread([registeredAt |-> toISOString(t),
          lastHealthCheck |-> toISOString(t),
          healthy |-> TRUE],
         serviceInfo)

\* the record register() builds
NewRecord(serviceInfo, t) ==
  Spread(serviceInfo,
         [registeredAt |-> toISOString(t),
          lastHealthCheck |-> toISOString(t),
          healthy |-> TRUE])

\* the map after register(serviceName, serviceInfo)
Registered(svcs, serviceName, serviceInfo, t) ==
  [n \in (DOMAIN svcs) \cup {serviceName} |->
     IF n = serviceName THEN NewRecord(serviceInfo, t) ELSE svcs[n]]

\* faulty variant: the healthy flag is not looked at
Discover_NoHealthGate(svcs, serviceName) ==
  IF serviceName \notin DOMAIN svcs THEN Null ELSE svcs[serviceName]

\* discover(serviceName) on a map
Discover(svcs, serviceName) ==
  IF serviceName \notin DOMAIN svcs THEN Null
  ELSE IF ~svcs[serviceName].healthy THEN Null
  ELSE svcs[serviceName]

\* faulty variant: the probe's outcome is not written to the flag
HealthUpdated_FlagKept(rec, isHealthy, t) ==
  [rec EXCEPT !.lastHealthCheck = toISOString(t)]

\* faulty variant: only a healthy report refreshes lastHealthCheck
HealthUpdated_RefreshOnSuccess(rec, isHealthy, t) ==
  IF isHealthy
    THEN [rec EXCEPT !.healthy = TRUE, !.lastHealthCheck = toISOString(t)]
    ELSE [rec EXCEPT !.healthy = FALSE]

\* the record updateHealth() leaves
HealthUpdated(rec, isHealthy, t) ==
  [rec EXCEPT !.healthy = isHealthy, !.lastHealthCheck = toISOString(t)]

\* faulty variant: >= in place of >
IsStale_AtLeast(rec, t) ==
  (t - parseDate(rec.lastHealthCheck)) >= TtlMinutes * MsPerMinute

\* cleanup(): whether a record is stale at time t
IsStale(rec, t) ==
  (t - parseDate(rec.lastHealthCheck)) > TtlMinutes * MsPerMinute

StaleNames(svcs, t) == {n \in DOMAIN svcs : IsStale(svcs[n], t)}

register(serviceName, serviceInfo, ok) ==
  /\ services' = Registered(services, serviceName, serviceInfo, now)
  /\ saveRegistry(services', ok)
  /\ gate' = [gate EXCEPT ![serviceName] =
                IF @ = "gated" THEN "reregistered" ELSE @]

unregister(serviceName, ok) ==
  /\ IF serviceName \in DOMAIN services
       THEN /\ services' = Delete(services, {serviceName})
            /\ saveRegistry(services', ok)
       ELSE UNCHANGED services /\ ok /\ NoSave
  /\ UNCHANGED gate

discover(serviceName) ==
  /\ UNCHANGED <<services, gate>>
  /\ NoSave

\* faulty variant: an unknown name is given a record
updateHealth_Creates(serviceName, isHealthy, ok) ==
  /\ services' = [n \in DOMAIN services \cup {serviceName} |->
                    IF n # serviceName THEN services[n]
                    ELSE IF n \in DOMAIN services
                      THEN HealthUpdated(services[n], isHealthy, now)
                      ELSE [healthy |-> isHealthy,
                            lastHealthCheck |-> toISOString(now)]]
  /\ saveRegistry(services', ok)
  /\ gate' = gate

updateHealth(serviceName, isHealthy, ok) ==
  /\ IF serviceName \in DOMAIN services
       THEN /\ services' = [services EXCEPT ![serviceName] =
                              HealthUpdated(@, isHealthy, now)]
            /\ saveRegistry(services', ok)
       ELSE UNCHANGED services /\ ok /\ NoSave
  /\ gate' = [gate EXCEPT ![serviceName] =
                IF isHealthy THEN "none"
                ELSE IF serviceName \in DOMAIN services THEN "gated" ELSE @]

cleanup(ok) ==
  LET stale == StaleNames(services, now) IN
  /\ services' = Delete(services, stale)
  /\ IF stale # {} THEN saveRegistry(services', ok) ELSE ok /\ NoSave
  /\ UNCHANGED gate

\* what each method returns, and the record of the call in "last"
RegisterCall(n, i) ==
  [op |-> "register", name |-> n, info |-> i, ret |-> TRUE, pre |-> services]

UnregisterCall(n) ==
  [op |-> "unregister", name |-> n, ret |-> (n \in DOMAIN services)]

DiscoverCall(n) ==
  [op |-> "discover", name |-> n, ret |-> Discover(services, n)]

UpdateHealthCall(n, h) ==
  [op |-> "updateHealth", name |-> n, arg |-> h, ret |-> (n \in DOMAIN services)]

CleanupCall ==
  [op |-> "cleanup", ret |-> (StaleNames(services, now) # {}), pre |-> services]

(***************************************************************************)
(* The clock.  A pending axios call ends by its timeout at the latest, so  *)
(* the clock cannot pass the deadline of a call that is still in flight.   *)
(***************************************************************************)
NoDeadlinePassed(t) ==
  /\ \A i \in 1..Len(proxied) : t - proxied[i].sent <= ProxyTimeoutMs
  /\ statusReq.cur # "" => t - statusReq.sent <= ProbeTimeoutMs
  /\ supervisor.cur # "" => t - supervisor.sent <= ProbeTimeoutMs
  /\ dash.pc # "idle" => t - dash.sent <= AggTimeoutMs
  /\ search.pc # "idle" => t - search.sent <= AggTimeoutMs

Tick(d) ==
  /\ ticks < MaxTicks
  /\ NoDeadlinePassed(now + d)
  /\ now' = now + d
  /\ ticks' = ticks + 1
  /\ last' = [op |-> "tick"]
  /\ UNCHANGED regVars
  /\ UNCHANGED gwVars
  /\ UNCHANGED timerVars
  /\ UNCHANGED aggVars
  /\ UNCHANGED snapVars

(***************************************************************************)
(* The registry on its own: its public methods called in any order.        *)
(***************************************************************************)
\* the serviceInfo of the records in the file at start-up
InitInfo == [url |-> "http://localhost:3002", version |-> "1.0.0"]

\* the records the registry file can hold at start-up, by age
InitRecords(ages) ==
  { HealthUpdated(NewRecord(InitInfo, StartTime - a), h, StartTime - a) :
      a \in ages, h \in BOOLEAN }

\* no dashboard request is being handled
DashIdle ==
  [pc |-> "idle", sent |-> 0, calls |-> <<>>, header |-> "",
   validate |-> "", lists |-> ""]

\* no search request is being handled; an object without keys is <<>>
SearchIdle ==
  [pc |-> "idle", sent |-> 0, calls |-> <<>>, q |-> "", header |-> "",
   results |-> <<>>, items |-> "", lists |-> ""]

\* part_001:50-54
InitBreakers ==
  [n \in ServiceNames |-> [failures |-> 0, state |-> "CLOSED", lastFailure |-> 0]]

\* no request is being handled
InitGatewayVars ==
  /\ circuitBreakers = InitBreakers
  /\ proxied = <<>>
  /\ statusReq = [todo |-> {}, cur |-> "", sent |-> 0]
  /\ streak = [n \in ServiceNames |-> 0]
  /\ recent = [n \in ServiceNames |-> <<>>]
  /\ supervisor = [todo |-> {}, cur |-> "", sent |-> 0]
  /\ supDue = StartTime + HealthIntervalMs
  /\ reapDue = StartTime + CleanupIntervalMs
  /\ dash = DashIdle
  /\ search = SearchIdle
  /\ snapshot = Null

\* initializeRegistry(): the file's content, or {} written to a new file
InitRegistry ==
  /\ now = StartTime
  /\ ticks = 0
  /\ \E S \in SUBSET RegistryNames : services \in [S -> InitRecords(InitAges)]
  /\ disk = services
  /\ writeFailures = 0
  /\ gate = [n \in AllNames |-> "none"]
  /\ InitGatewayVars
  /\ last = [op |-> "init"]

\* a method of the registry is called; nothing else moves
RegistryOnly ==
  /\ UNCHANGED <<now, ticks>>
  /\ UNCHANGED gwVars
  /\ UNCHANGED timerVars
  /\ UNCHANGED aggVars
  /\ UNCHANGED snapVars

NextRegistry ==
  \/ \E n \in RegistryNames, i \in Infos :
       register(n, i, TRUE) /\ last' = RegisterCall(n, i) /\ RegistryOnly
  \/ \E n \in RegistryNames :
       unregister(n, TRUE) /\ last' = UnregisterCall(n) /\ RegistryOnly
  \/ \E n \in RegistryNames :
       discover(n) /\ last' = DiscoverCall(n) /\ RegistryOnly
  \/ \E n \in RegistryNames, h \in BOOLEAN :
       updateHealth(n, h, TRUE) /\ last' = UpdateHealthCall(n, h) /\ RegistryOnly
  \/ cleanup(TRUE) /\ last' = CleanupCall /\ RegistryOnly
  \/ \E d \in Deltas : Tick(d)

SpecRegistry == InitRegistry /\ [][NextRegistry]_vars

(***************************************************************************)
(* getAllServices() (part_000:90-92) returns { ...this.services }: a new   *)
(* object with the registry's keys whose values are the registry's record  *)
(* objects themselves.  snapshot[n].shared tells that the record under n   *)
(* is still the object the registry holds under n; once the registry has   *)
(* replaced or deleted that record, the snapshot holds the old object on   *)
(* its own, with the value snapshot[n].rec.                                *)
(***************************************************************************)
\* the ages of the records in the file at start-up
SnapshotAges == {0, 121000}

\* the names registered while a snapshot is held
SnapshotNames == {"user-service"}

\* part_000:91: the spread copies the keys, not the records
Snapshot(svcs) == [n \in DOMAIN svcs |-> [shared |-> TRUE, rec |-> svcs[n]]]

\* what the holder of the snapshot reads in it
Shown(snap, svcs) ==
  [n \in DOMAIN snap |-> IF snap[n].shared THEN svcs[n] ELSE snap[n].rec]

\* part_000:36, 50, 105: the registry assigns a new record to the names or
\* deletes them; the snapshot keeps the objects it was given
Detached(snap, names, svcs) ==
  IF snap = Null THEN snap
  ELSE [n \in DOMAIN snap |->
          IF n \in names /\ snap[n].shared
            THEN [shared |-> FALSE, rec |-> svcs[n]]
            ELSE snap[n]]

\* a registry call leaves the clock, the gateway and the handlers alone
SnapshotFrame ==
  /\ UNCHANGED <<now, ticks>>
  /\ UNCHANGED gwVars
  /\ UNCHANGED timerVars
  /\ UNCHANGED aggVars

\* part_000:90-92
getAllServices ==
  /\ snapshot' = Snapshot(services)
  /\ last' = [op |-> "getAllServices", ret |-> services]
  /\ UNCHANGED regVars
  /\ SnapshotFrame

\* the holder of the snapshot sets the healthy flag of one of its records
SnapshotSetHealthy(n, h) ==
  /\ snapshot # Null
  /\ n \in DOMAIN snapshot
  /\ IF snapshot[n].shared
       THEN /\ services' = [services EXCEPT ![n].healthy = h]
            /\ UNCHANGED snapshot
       ELSE /\ snapshot' = [snapshot EXCEPT ![n].rec.healthy = h]
            /\ UNCHANGED services
  /\ last' = [op |-> "snapshotSet", name |-> n, arg |-> h]
  /\ UNCHANGED <<disk, writeFailures, gate>>
  /\ SnapshotFrame

\* the holder of the snapshot deletes one of its keys
SnapshotDelete(n) ==
  /\ snapshot # Null
  /\ n \in DOMAIN snapshot
  /\ snapshot' = Delete(snapshot, {n})
  /\ last' = [op |-> "snapshotDelete", name |-> n]
  /\ UNCHANGED regVars
  /\ SnapshotFrame

InitSnapshot ==
  /\ now = StartTime
  /\ ticks = 0
  /\ \E S \in SUBSET SnapshotNames : services \in [S -> InitRecords(SnapshotAges)]
  /\ disk = services
  /\ writeFailures = 0
  /\ gate = [n \in AllNames |-> "none"]
  /\ InitGatewayVars
  /\ last = [op |-> "init"]

NextSnapshot ==
  \/ getAllServices
  \/ \E n \in SnapshotNames, i \in Infos :
       /\ register(n, i, TRUE)
       /\ snapshot' = Detached(snapshot, {n}, services)
       /\ last' = [op |-> "register", name |-> n]
       /\ SnapshotFrame
  \/ \E n \in SnapshotNames :
       /\ unregister(n, TRUE)
       /\ snapshot' = Detached(snapshot, {n}, services)
       /\ last' = [op |-> "unregister", name |-> n]
       /\ SnapshotFrame
  \/ \E n \in SnapshotNames, h \in BOOLEAN :
       /\ updateHealth(n, h, TRUE)
       /\ UNCHANGED snapshot
       /\ last' = [op |-> "updateHealth", name |-> n]
       /\ SnapshotFrame
  \/ /\ cleanup(TRUE)
     /\ snapshot' = Detached(snapshot, StaleNames(services, now), services)
     /\ last' = [op |-> "cleanup"]
     /\ SnapshotFrame
  \/ \E n \in SnapshotNames, h \in BOOLEAN : SnapshotSetHealthy(n, h)
  \/ \E n \in SnapshotNames : SnapshotDelete(n)
  \/ \E d \in Deltas : Tick(d)

SpecSnapshot == InitSnapshot /\ [][NextSnapshot]_vars

(***************************************************************************)
(* ApiGateway: the circuit breakers, the proxy handler and GET /health.    *)
(***************************************************************************)
\* faulty variant: the cooldown is over at 30 s sharp
GateCheck_AtLeast(cb, t) ==
  IF cb.state = "OPEN"
    THEN IF t - cb.lastFailure >= CooldownMs
           THEN [cb |-> [cb EXCEPT !.state = "HALF-OPEN"], pass |-> TRUE]
           ELSE [cb |-> cb, pass |-> FALSE]
    ELSE [cb |-> cb, pass |-> TRUE]

\* faulty variant: the cooldown is not waited for
GateCheck_NoCooldown(cb, t) ==
  IF cb.state = "OPEN"
    THEN [cb |-> [cb EXCEPT !.state = "HALF-OPEN"], pass |-> TRUE]
    ELSE [cb |-> cb, pass |-> TRUE]

\* faulty variant: HALF-OPEN turns requests away as OPEN does
GateCheck_HalfOpenBlocks(cb, t) ==
  IF cb.state = "OPEN"
    THEN IF t - cb.lastFailure > CooldownMs
           THEN [cb |-> [cb EXCEPT !.state = "HALF-OPEN"], pass |-> TRUE]
           ELSE [cb |-> cb, pass |-> FALSE]
    ELSE [cb |-> cb, pass |-> cb.state # "HALF-OPEN"]

\* part_001:211-225: the breaker as the gate leaves it, and whether the
\* request goes on
GateCheck(cb, t) ==
  IF cb.state = "OPEN"
    THEN IF t - cb.lastFailure > CooldownMs
           THEN [cb |-> [cb EXCEPT !.state = "HALF-OPEN"], pass |-> TRUE]
           ELSE [cb |-> cb, pass |-> FALSE]
    ELSE [cb |-> cb, pass |-> TRUE]

\* faulty variant: the breaker is closed but the counter is kept
OnProxySuccess_KeepCounter(cb) ==
  IF cb.state = "HALF-OPEN" THEN [cb EXCEPT !.state = "CLOSED"] ELSE cb

\* faulty variant: any success clears the counter
OnProxySuccess_ResetAlways(cb) ==
  IF cb.state = "HALF-OPEN"
    THEN [cb EXCEPT !.state = "CLOSED", !.failures = 0]
    ELSE [cb EXCEPT !.failures = 0]

\* faulty variant: a success leaves the breaker as it is
OnProxySuccess_Ignored(cb) == cb

\* part_001:252-257: axios resolved
OnProxySuccess(cb) ==
  IF cb.state = "HALF-OPEN"
    THEN [cb EXCEPT !.state = "CLOSED", !.failures = 0]
    ELSE cb

\* faulty variant: the breaker opens one failure late
OnProxyFailure_Late(cb, t) ==
  LET f == cb.failures + 1 IN
  [failures |-> f,
   lastFailure |-> t,
   state |-> IF f > FailureThreshold THEN "OPEN"
             ELSE IF cb.state = "HALF-OPEN" THEN "OPEN"
             ELSE cb.state]

\* faulty variant: the time of the failure is not recorded
OnProxyFailure_KeepTime(cb, t) ==
  LET f == cb.failures + 1 IN
  [failures |-> f,
   lastFailure |-> cb.lastFailure,
   state |-> IF f >= FailureThreshold THEN "OPEN"
             ELSE IF cb.state = "HALF-OPEN" THEN "OPEN"
             ELSE cb.state]

\* part_001:264-276: the catch block
OnProxyFailure(cb, t) ==
  LET f == cb.failures + 1 IN
  [failures |-> f,
   lastFailure |-> t,
   state |-> IF f >= FailureThreshold THEN "OPEN"
             ELSE IF cb.state = "HALF-OPEN" THEN "OPEN"
             ELSE cb.state]

\* faulty variant: the breaker is closed but the counter is kept
OnStatusSuccess_KeepCounter(cb) == [cb EXCEPT !.state = "CLOSED"]

\* part_001:154-158: GET /health reached the service
OnStatusSuccess(cb) == [cb EXCEPT !.failures = 0, !.state = "CLOSED"]

\* faulty variant: the failure is counted but the breaker is left as it is
OnStatusFailure_NeverOpens(cb, t) ==
  [cb EXCEPT !.failures = @ + 1, !.lastFailure = t]

\* part_001:165-174: GET /health did not reach the service
OnStatusFailure(cb, t) ==
  LET f == cb.failures + 1 IN
  [failures |-> f,
   lastFailure |-> t,
   state |-> IF f >= FailureThreshold THEN "OPEN" ELSE cb.state]

\* faulty variant: only a call without an answer counts as failed
ProxyFailed_NoAnswerOnly(answer) == answer.kind = "net"

\* part_001:241-250, 261: axios rejects, and the catch block runs, for an
\* answer of a status outside 2xx as for no answer at all
ProxyFailed(answer) == answer.kind # "ok"

\* seq without its i-th element
RemoveAt(seq, i) == SubSeq(seq, 1, i - 1) \o SubSeq(seq, i + 1, Len(seq))

\* history: the run of failed proxied calls since the breaker was CLOSED
\* with counter 0; -1 once anything else has touched the breaker
StreakAfter(old, cb, failedCall) ==
  IF failedCall THEN (IF old >= 0 THEN old + 1 ELSE -1)
  ELSE IF cb.state = "CLOSED" /\ cb.failures = 0 THEN 0 ELSE -1

\* calls remembered in the history of a service
HistoryLen == 3

\* history: the outcome of a completed call (failed or not) is appended,
\* the oldest one beyond HistoryLen forgotten
Recorded(hist, failed) ==
  LET h == Append(hist, failed) IN
  IF Len(h) > HistoryLen THEN SubSeq(h, 2, Len(h)) ELSE h

\* part_001:209-250: a request for serviceName arrives; the handler runs
\* to its first response or to the await of the forwarded call
ProxyArrive(serviceName) ==
  LET cb == circuitBreakers[serviceName]
      g == GateCheck(cb, now)
      trial == cb.state = "OPEN" /\ g.pass
      service == Discover(services, serviceName)
  IN
  /\ IF ~g.pass
       THEN /\ last' = [op |-> "proxyArrive", svc |-> serviceName,
                        outcome |-> "fastfail", status |-> 503,
                        circuitBreaker |-> "OPEN", discovered |-> FALSE,
                        dispatched |-> FALSE, pre |-> cb,
                        inFlight |-> Len(proxied)]
            /\ UNCHANGED <<circuitBreakers, proxied, streak>>
       ELSE /\ circuitBreakers' = [circuitBreakers EXCEPT ![serviceName] = g.cb]
            /\ streak' = [streak EXCEPT ![serviceName] =
                            IF trial THEN -1 ELSE @]
            /\ IF service = Null
                 THEN /\ last' = [op |-> "proxyArrive", svc |-> serviceName,
                                  outcome |-> "miss", status |-> 503,
                                  circuitBreaker |-> "", discovered |-> TRUE,
                                  dispatched |-> FALSE, pre |-> cb,
                                  inFlight |-> Len(proxied)]
                      /\ UNCHANGED proxied
                 ELSE /\ Len(proxied) < MaxInFlight
                      /\ proxied' = Append(proxied,
                           [svc |-> serviceName, sent |-> now, trial |-> trial])
                      /\ last' = [op |-> "proxyArrive", svc |-> serviceName,
                                  outcome |-> "dispatched", status |-> 0,
                                  circuitBreaker |-> "", discovered |-> TRUE,
                                  dispatched |-> TRUE, pre |-> cb,
                                  inFlight |-> Len(proxied)]
  /\ UNCHANGED <<now, ticks, statusReq, recent>>
  /\ UNCHANGED regVars
  /\ UNCHANGED timerVars
  /\ UNCHANGED aggVars
  /\ UNCHANGED snapVars

\* part_001:252-288: the forwarded call of request i settles with answer;
\* all of it but the history of outcomes
ProxySettled(i, answer) ==
  LET call == proxied[i]
      cb == circuitBreakers[call.svc]
      failed == ProxyFailed(answer)
  IN
  /\ failed => cb.failures < MaxFailures
  /\ circuitBreakers' = [circuitBreakers EXCEPT ![call.svc] =
       IF failed THEN OnProxyFailure(cb, now) ELSE OnProxySuccess(cb)]
  /\ proxied' = RemoveAt(proxied, i)
  /\ streak' = [streak EXCEPT ![call.svc] =
                  StreakAfter(@, circuitBreakers'[call.svc], failed)]
  /\ last' = [op |-> "proxyDone", svc |-> call.svc, kind |-> answer.kind,
              status |-> IF answer.kind = "net" THEN 503 ELSE answer.status,
              relayed |-> answer.kind # "net",
              trial |-> call.trial, pre |-> cb]
  /\ UNCHANGED <<now, ticks, statusReq>>
  /\ UNCHANGED regVars
  /\ UNCHANGED timerVars
  /\ UNCHANGED aggVars
  /\ UNCHANGED snapVars

\* part_001:252-288, the history of outcomes not kept
ProxyDone(i, answer) ==
  /\ ProxySettled(i, answer)
  /\ UNCHANGED recent

\* part_001:252-288, the history of outcomes kept
ProxyDoneRecorded(i, answer) ==
  /\ ProxySettled(i, answer)
  /\ recent' = [recent EXCEPT ![proxied[i].svc] =
                  Recorded(@, ProxyFailed(answer))]

\* part_001:146-148: the loop of GET /health probes the next name of its
\* snapshot.  Object.entries lists the names in insertion order; every
\* order is the insertion order of some registry, so the next name is any
\* name left.
StatusNext(todo) ==
  IF todo = {}
    THEN /\ statusReq' = [todo |-> {}, cur |-> "", sent |-> 0]
    ELSE \E n \in todo :
           statusReq' = [todo |-> todo \ {n}, cur |-> n, sent |-> now]

\* part_001:141-148: GET /health arrives
StatusStart ==
  /\ statusReq.cur = ""
  /\ StatusNext(DOMAIN services)
  /\ last' = [op |-> "statusStart", answered |-> (DOMAIN services = {})]
  /\ UNCHANGED <<now, ticks, circuitBreakers, proxied, streak, recent>>
  /\ UNCHANGED regVars
  /\ UNCHANGED timerVars
  /\ UNCHANGED aggVars
  /\ UNCHANGED snapVars

\* part_001:149-187: the probe in flight settles; the breaker of the probed
\* name is updated if there is one; the loop goes on or the handler answers
StatusProbeDone(reached) ==
  LET n == statusReq.cur IN
  /\ n # ""
  /\ IF n \in DOMAIN circuitBreakers
       THEN /\ ~reached => circuitBreakers[n].failures < MaxFailures
            /\ circuitBreakers' = [circuitBreakers EXCEPT ![n] =
                 IF reached THEN OnStatusSuccess(@) ELSE OnStatusFailure(@, now)]
            /\ streak' = [streak EXCEPT ![n] =
                            StreakAfter(-1, circuitBreakers'[n], FALSE)]
       ELSE UNCHANGED <<circuitBreakers, streak>>
  /\ StatusNext(statusReq.todo)
  /\ last' = [op |-> "statusProbe", svc |-> n, reached |-> reached,
              answered |-> (statusReq.todo = {}),
              pre |-> IF n \in DOMAIN circuitBreakers
                        THEN circuitBreakers[n] ELSE Null]
  /\ UNCHANGED <<now, ticks, proxied, recent>>
  /\ UNCHANGED regVars
  /\ UNCHANGED timerVars
  /\ UNCHANGED aggVars
  /\ UNCHANGED snapVars

\* faulty variant: one name is probed and the rest of the snapshot dropped
SupervisorNext_DropsRest(todo) ==
  IF todo = {}
    THEN /\ supervisor' = [todo |-> {}, cur |-> "", sent |-> 0]
    ELSE \E n \in todo :
           supervisor' = [todo |-> {}, cur |-> n, sent |-> now]

\* part_001:453-455: the interval callback probes the next name of its
\* snapshot (any name left, as in GET /health)
SupervisorNext(todo) ==
  IF todo = {}
    THEN /\ supervisor' = [todo |-> {}, cur |-> "", sent |-> 0]
    ELSE \E n \in todo :
           supervisor' = [todo |-> todo \ {n}, cur |-> n, sent |-> now]

\* part_001:449-455: the 30 s interval fires.  A cycle probes one name
\* after the other, each for ProbeTimeoutMs at most, so it is over before
\* the interval fires again.
SupervisorStart ==
  /\ supervisor.cur = ""
  /\ now >= supDue
  /\ supDue' = now + HealthIntervalMs
  /\ SupervisorNext(DOMAIN services)
  /\ last' = [op |-> "supervisorStart"]
  /\ UNCHANGED <<now, ticks, reapDue>>
  /\ UNCHANGED regVars
  /\ UNCHANGED gwVars
  /\ UNCHANGED aggVars
  /\ UNCHANGED snapVars

\* part_001:455-461: the probe in flight settles and its outcome is
\* written to the registry; the loop goes on
SupervisorProbeDone(reached) ==
  LET n == supervisor.cur IN
  /\ n # ""
  /\ updateHealth(n, reached, TRUE)
  /\ SupervisorNext(supervisor.todo)
  /\ last' = [op |-> "supervisorProbe", svc |-> n, reached |-> reached,
              ret |-> (n \in DOMAIN services)]
  /\ UNCHANGED <<now, ticks, supDue, reapDue>>
  /\ UNCHANGED gwVars
  /\ UNCHANGED aggVars
  /\ UNCHANGED snapVars

\* part_000:122-124: the 60 s interval fires
CleanupTimer ==
  /\ now >= reapDue
  /\ reapDue' = now + CleanupIntervalMs
  /\ cleanup(TRUE)
  /\ last' = CleanupCall
  /\ UNCHANGED <<now, ticks, supervisor, supDue>>
  /\ UNCHANGED gwVars
  /\ UNCHANGED aggVars
  /\ UNCHANGED snapVars

\* the names in the registry file of the gateway whose breaker is followed
GatewayNames == {"user-service"}

\* the gateway starts: the registry is what the file held
InitBreaker ==
  /\ now = StartTime
  /\ ticks = 0
  /\ \E S \in SUBSET GatewayNames : services \in [S -> InitRecords({0})]
  /\ disk = services
  /\ writeFailures = 0
  /\ gate = [n \in AllNames |-> "none"]
  /\ InitGatewayVars
  /\ last = [op |-> "init"]

NextBreaker ==
  \/ \E n \in TrafficNames : ProxyArrive(n)
  \/ \E i \in 1..Len(proxied), a \in Answers : ProxyDone(i, a)
  \/ StatusStart
  \/ \E r \in BOOLEAN : StatusProbeDone(r)
  \/ SupervisorStart
  \/ \E r \in BOOLEAN : SupervisorProbeDone(r)
  \/ CleanupTimer
  \/ \E d \in Deltas : Tick(d)

SpecBreaker == InitBreaker /\ [][NextBreaker]_vars

\* the proxy and the status endpoint with the history of outcomes kept;
\* the timers are left out, so the registry stays as it started
NextHistory ==
  \/ \E n \in TrafficNames : ProxyArrive(n)
  \/ \E i \in 1..Len(proxied), a \in Answers : ProxyDoneRecorded(i, a)
  \/ StatusStart
  \/ \E r \in BOOLEAN : StatusProbeDone(r)
  \/ \E d \in Deltas : Tick(d)

SpecHistory == InitBreaker /\ [][NextHistory]_vars

(***************************************************************************)
(* GET /api/dashboard (part_001:293-375).  The handler awaits three        *)
(* downstream calls one after the other; between two of them the timers    *)
(* run and the registry may change.  dash.pc names the call it waits for,  *)
(* dash.calls the backends called so far, in order.                        *)
(***************************************************************************)
\* the Authorization header of a request: none, one of another scheme, or
\* 'Bearer <token>'
AuthHeaders == {"missing", "basic", "bearer"}

\* what a downstream call of the aggregator comes back with: a 2xx answer
\* whose envelope says success ("ok"), a 2xx answer whose envelope says
\* success: false ("nack"), a 2xx answer flagged success without the
\* payload the handler reads ("bad"), an answer of another status ("http"),
\* no answer in 5 s ("net")
AggAnswers == {"ok", "nack", "bad", "http", "net"}

\* faulty variant: any Authorization header is taken for a bearer one
StartsWithBearer_AnyHeader(authHeader) == authHeader # "missing"

\* part_001:297: authHeader?.startsWith('Bearer ')
StartsWithBearer(authHeader) == authHeader = "bearer"

\* faulty variant: an error status resolves instead of rejecting
AxiosRejects_OnlyNoAnswer(answer) == answer = "net"

\* axios.post / axios.get (part_001:308, 320, 327) reject on a status
\* outside 2xx, on a network error and on the 5 s timeout
AxiosRejects(answer) == answer \in {"http", "net"}

\* part_001:298-301, 311-314, 339-365, 368-372: the response is sent and
\* the handler is over; validate, lists and items tell how far it came
DashRespond(status, message, error, validate, lists, items, calls, header) ==
  /\ dash' = DashIdle
  /\ last' = [op |-> "dashboard", status |-> status,
              success |-> (status = 200), message |-> message,
              error |-> error, header |-> header, validate |-> validate,
              lists |-> lists, items |-> items, calls |-> calls]

\* part_001:367-373: whatever is thrown inside the handler
DashCatch(error, validate, lists, items, calls) ==
  DashRespond(500, "Erro ao carregar dashboard", error, validate, lists,
              items, calls, dash.header)

\* part_001:307-308, 319-323, 326-327: discover the backend and call it;
\* discover returning null makes `.url` throw a TypeError before any call
DashCall(serviceName, pc, d, validate, lists, items) ==
  IF Discover(services, serviceName) = Null
    THEN DashRespond(500, "Erro ao carregar dashboard", "TypeError",
                     validate, lists, items, d.calls, d.header)
    ELSE /\ dash' = [d EXCEPT !.pc = pc, !.sent = now,
                              !.calls = Append(d.calls, serviceName)]
         /\ last' = [op |-> "dashboardCall", svc |-> serviceName]

\* the handler changes nothing but its own position
DashOnly ==
  /\ UNCHANGED <<now, ticks, search, snapshot>>
  /\ UNCHANGED regVars
  /\ UNCHANGED gwVars
  /\ UNCHANGED timerVars

\* part_001:294-308
DashboardArrive(authHeader) ==
  /\ dash.pc = "idle"
  /\ IF ~StartsWithBearer(authHeader)
       THEN DashRespond(401, "Token obrigatorio", "", "", "", "", <<>>,
                        authHeader)
       ELSE DashCall("user-service", "validate",
                     [dash EXCEPT !.header = authHeader], "miss", "", "")
  /\ DashOnly

\* part_001:308-323: the validation call settles
DashboardValidated(answer) ==
  /\ dash.pc = "validate"
  /\ IF AxiosRejects(answer)
       THEN DashCatch(answer, answer, "", "", dash.calls)
       ELSE IF answer = "nack"
         THEN DashRespond(401, "Token invalido", "", answer, "", "",
                          dash.calls, dash.header)
         ELSE IF answer = "bad"
           THEN DashCatch("TypeError", answer, "", "", dash.calls)
           ELSE DashCall("list-service", "lists",
                         [dash EXCEPT !.validate = answer], answer, "miss", "")
  /\ DashOnly

\* part_001:320-327: the lists call settles
DashboardLists(answer) ==
  /\ dash.pc = "lists"
  /\ IF AxiosRejects(answer)
       THEN DashCatch(answer, dash.validate, answer, "", dash.calls)
       ELSE DashCall("item-service", "items",
                     [dash EXCEPT !.lists = answer], dash.validate, answer,
                     "miss")
  /\ DashOnly

\* part_001:327-365: the items call settles; the statistics are computed
\* from both answers (a `success: false` envelope stands for [] and 0)
DashboardItems(answer) ==
  /\ dash.pc = "items"
  /\ IF AxiosRejects(answer)
       THEN DashCatch(answer, dash.validate, dash.lists, answer, dash.calls)
       ELSE IF answer = "bad" \/ dash.lists = "bad"
         THEN DashCatch("TypeError", dash.validate, dash.lists, answer,
                        dash.calls)
         ELSE DashRespond(200, "", "", dash.validate, dash.lists, answer,
                          dash.calls, dash.header)
  /\ DashOnly

\* the gateway starts with any of the three backends in its registry file
InitDashboard ==
  /\ now = StartTime
  /\ ticks = 0
  /\ \E S \in SUBSET ServiceNames : services \in [S -> InitRecords({0})]
  /\ disk = services
  /\ writeFailures = 0
  /\ gate = [n \in AllNames |-> "none"]
  /\ InitGatewayVars
  /\ last = [op |-> "init"]

NextDashboard ==
  \/ \E h \in AuthHeaders : DashboardArrive(h)
  \/ \E a \in AggAnswers : DashboardValidated(a)
  \/ \E a \in AggAnswers : DashboardLists(a)
  \/ \E a \in AggAnswers : DashboardItems(a)
  \/ SupervisorStart
  \/ \E r \in BOOLEAN : SupervisorProbeDone(r)
  \/ CleanupTimer
  \/ \E d \in Deltas : Tick(d)

SpecDashboard == InitDashboard /\ [][NextDashboard]_vars

(***************************************************************************)
(* GET /api/search (part_001:378-445).  The handler awaits the item search *)
(* and then, for a bearer credential, the caller's lists; each of the two  *)
(* has its own try/catch.  search.results is the `results` object;         *)
(* search.items and search.lists tell what became of each sub-query.       *)
(***************************************************************************)
\* req.query.q: absent or empty (both falsy), or a term
Queries == {"", "arroz"}

\* part_001:381: !q
HasQuery(q) == q # ""

WithOutcome_ErrorDropped(results, section, answer) ==
  IF answer = "ok" THEN Spread(results, [k \in {section} |-> "found"])
  ELSE results

\* part_001:394-400, 415-425: what one sub-query leaves in `results`.  A
\* rejected call, a backend discover() does not return ("miss") and a
\* payload the handler cannot read put the message of the error under
\* <section>Error; `success: false` in the envelope puts nothing.  An item
\* answer flagged success without data sets items to undefined, which the
\* JSON body does not show.
WithOutcome(results, section, answer) ==
  IF answer = "ok"
    THEN Spread(results, [k \in {section} |-> "found"])
    ELSE IF AxiosRejects(answer)
      THEN Spread(results, [k \in {section \o "Error"} |-> answer])
      ELSE IF answer = "miss" \/ (answer = "bad" /\ section = "lists")
        THEN Spread(results, [k \in {section \o "Error"} |-> "TypeError"])
        ELSE results

\* part_001:427-434, 382-385: the response is sent and the handler is over
SearchRespond(status, s) ==
  /\ search' = SearchIdle
  /\ last' = [op |-> "search", status |-> status, success |-> (status = 200),
              data |-> s.results, q |-> s.q, header |-> s.header,
              items |-> s.items, lists |-> s.lists, calls |-> s.calls]

\* part_001:403-426: the lists sub-query, entered with the results so far
SearchListsPhase(s) ==
  IF ~StartsWithBearer(s.header)
    THEN SearchRespond(200, s)
    ELSE IF Discover(services, "list-service") = Null
      THEN SearchRespond(200,
             [s EXCEPT !.results = WithOutcome(s.results, "lists", "miss"),
                       !.lists = "miss"])
      ELSE /\ search' = [s EXCEPT !.pc = "lists", !.sent = now,
                                  !.calls = Append(s.calls, "list-service")]
           /\ last' = [op |-> "searchCall", svc |-> "list-service"]

\* the handler changes nothing but its own position
SearchOnly ==
  /\ UNCHANGED <<now, ticks, dash, snapshot>>
  /\ UNCHANGED regVars
  /\ UNCHANGED gwVars
  /\ UNCHANGED timerVars

\* part_001:378-393
SearchArrive(q, authHeader) ==
  LET s == [search EXCEPT !.q = q, !.header = authHeader] IN
  /\ search.pc = "idle"
  /\ IF ~HasQuery(q)
       THEN SearchRespond(400, s)
       ELSE IF Discover(services, "item-service") = Null
         THEN SearchListsPhase(
                [s EXCEPT !.results = WithOutcome(s.results, "items", "miss"),
                          !.items = "miss"])
         ELSE /\ search' = [s EXCEPT !.pc = "items", !.sent = now,
                                     !.calls = <<"item-service">>]
              /\ last' = [op |-> "searchCall", svc |-> "item-service"]
  /\ SearchOnly

\* part_001:393-413: the item search settles
SearchItems(answer) ==
  /\ search.pc = "items"
  /\ SearchListsPhase(
       [search EXCEPT !.results = WithOutcome(search.results, "items", answer),
                      !.items = answer])
  /\ SearchOnly

\* part_001:413-434: the lists call settles
SearchLists(answer) ==
  /\ search.pc = "lists"
  /\ SearchRespond(200,
       [search EXCEPT !.results = WithOutcome(search.results, "lists", answer),
                      !.lists = answer])
  /\ SearchOnly

NextSearch ==
  \/ \E q \in Queries, h \in AuthHeaders : SearchArrive(q, h)
  \/ \E a \in AggAnswers : SearchItems(a)
  \/ \E a \in AggAnswers : SearchLists(a)
  \/ SupervisorStart
  \/ \E r \in BOOLEAN : SupervisorProbeDone(r)
  \/ CleanupTimer
  \/ \E d \in Deltas : Tick(d)

\* the same start as for the dashboard
SpecSearch == InitDashboard /\ [][NextSearch]_vars

(***************************************************************************)
(* The health supervision on its own (part_001:448-466), with the cleanup  *)
(* timer of the registry, over a registry file with up to three backends.  *)
(***************************************************************************)
NextSupervisor ==
  \/ SupervisorStart
  \/ \E r \in BOOLEAN : SupervisorProbeDone(r)
  \/ CleanupTimer
  \/ \E d \in Deltas : Tick(d)

SpecSupervisor == InitDashboard /\ [][NextSupervisor]_vars

(***************************************************************************)
(* The two health channels side by side: proxied traffic for one backend   *)
(* and the health supervision over a registry file with two backends.      *)
(***************************************************************************)
\* the backends in the registry file
ChannelNames == {"user-service", "item-service"}

InitChannels ==
  /\ now = StartTime
  /\ ticks = 0
  /\ services \in [ChannelNames -> InitRecords({0})]
  /\ disk = services
  /\ writeFailures = 0
  /\ gate = [n \in AllNames |-> "none"]
  /\ InitGatewayVars
  /\ last = [op |-> "init"]

NextChannels ==
  \/ \E n \in TrafficNames : proxied = <<>> /\ ProxyArrive(n)
  \/ \E i \in 1..Len(proxied), a \in Answers : ProxyDone(i, a)
  \/ SupervisorStart
  \/ \E r \in BOOLEAN : SupervisorProbeDone(r)
  \/ \E d \in Deltas : Tick(d)

SpecChannels == InitChannels /\ [][NextChannels]_vars

(***************************************************************************)
(* The health supervision while records come and go: the registry's        *)
(* methods are called and its sweep runs between the probes of a cycle.    *)
(***************************************************************************)
\* the ages of the records in the registry file at start-up
RaceAges == {0, 119000}

InitProbeRace ==
  /\ now = StartTime
  /\ ticks = 0
  /\ services \in [ChannelNames -> InitRecords(RaceAges)]
  /\ disk = services
  /\ writeFailures = 0
  /\ gate = [n \in AllNames |-> "none"]
  /\ InitGatewayVars
  /\ last = [op |-> "init"]

NextProbeRace ==
  \/ SupervisorStart
  \/ \E r \in BOOLEAN : SupervisorProbeDone(r)
  \/ CleanupTimer
  \/ \E n \in ChannelNames :
       unregister(n, TRUE) /\ last' = UnregisterCall(n) /\ RegistryOnly
  \/ \E n \in ChannelNames :
       register(n, InitInfo, TRUE) /\ last' = RegisterCall(n, InitInfo)
         /\ RegistryOnly
  \/ \E n \in ChannelNames, h \in BOOLEAN :
       updateHealth(n, h, TRUE) /\ last' = UpdateHealthCall(n, h) /\ RegistryOnly
  \/ \E d \in Deltas : Tick(d)

SpecProbeRace == InitProbeRace /\ [][NextProbeRace]_vars

(***************************************************************************)
(* The registry when the file cannot be written: writeJsonSync throws in   *)
(* some of the calls of saveRegistry.                                      *)
(***************************************************************************)
\* the names the registry is called with
StorageNames == {"user-service"}

\* faulty variant: the catch block throws the error on
WriteErrorSurfaced_Rethrown(ok) == ~ok

\* part_000:28-30: the catch block of saveRegistry logs the error and
\* returns, so no exception leaves the method that called it
WriteErrorSurfaced(ok) == FALSE

\* what the caller of a registry method sees, with the fate of the write
Outcome(call, ok) ==
  Spread(call, [writeOk |-> ok, threw |-> WriteErrorSurfaced(ok)])

InitStorage ==
  /\ now = StartTime
  /\ ticks = 0
  /\ \E S \in SUBSET StorageNames : services \in [S -> InitRecords(InitAges)]
  /\ disk = services
  /\ writeFailures = 0
  /\ gate = [n \in AllNames |-> "none"]
  /\ InitGatewayVars
  /\ last = [op |-> "init"]

NextStorage ==
  \/ \E n \in StorageNames, i \in Infos, ok \in BOOLEAN :
       /\ register(n, i, ok)
       /\ last' = Outcome(RegisterCall(n, i), ok)
       /\ RegistryOnly
  \/ \E n \in StorageNames, ok \in BOOLEAN :
       /\ unregister(n, ok)
       /\ last' = Outcome(UnregisterCall(n), ok)
       /\ RegistryOnly
  \/ \E n \in StorageNames, h \in BOOLEAN, ok \in BOOLEAN :
       /\ updateHealth(n, h, ok)
       /\ last' = Outcome(UpdateHealthCall(n, h), ok)
       /\ RegistryOnly
  \/ \E ok \in BOOLEAN :
       /\ cleanup(ok)
       /\ last' = Outcome(CleanupCall, ok)
       /\ RegistryOnly
  \/ \E n \in StorageNames :
       discover(n) /\ last' = DiscoverCall(n) /\ RegistryOnly
  \/ /\ last' = [op |-> "getAllServices", ret |-> Spread(services, <<>>)]
     /\ UNCHANGED regVars
     /\ RegistryOnly
  \/ \E d \in Deltas : Tick(d)

SpecStorage == InitStorage /\ [][NextStorage]_vars

(***************************************************************************)
(* The two timers on schedule: the gateway's health supervision every      *)
(* 30 s and the registry's sweep every 60 s, as setInterval fires them,    *)
(* with every probe over within its timeout.                               *)
(***************************************************************************)
\* sweeps of the registry in one behaviour
MaxSweeps == 3

\* the ages of the records in the registry file at start-up
KeepAges == {119000, 121000}

\* the backends that are down for good: every probe of them fails
DownNames == {"item-service"}

\* the backends that register and unregister while the gateway runs
ComingAndGoing == {"user-service"}

\* the timer that fires next is due at
NextDue == IF supDue <= reapDue THEN supDue ELSE reapDue

\* time passes: up to the timeout of the probe in flight, or else until
\* the next timer is due; no timer is late
Elapse ==
  LET d == IF supervisor.cur # "" THEN ProbeTimeoutMs ELSE NextDue - now IN
  /\ d > 0
  /\ now + d <= NextDue
  /\ now + d <= StartTime + MaxSweeps * CleanupIntervalMs
  /\ NoDeadlinePassed(now + d)
  /\ now' = now + d
  /\ last' = [op |-> "tick"]
  /\ UNCHANGED ticks
  /\ UNCHANGED regVars
  /\ UNCHANGED gwVars
  /\ UNCHANGED timerVars
  /\ UNCHANGED aggVars
  /\ UNCHANGED snapVars

InitKeepAlive ==
  /\ now = StartTime
  /\ ticks = 0
  /\ \E S \in SUBSET ChannelNames : services \in [S -> InitRecords(KeepAges)]
  /\ disk = services
  /\ writeFailures = 0
  /\ gate = [n \in AllNames |-> "none"]
  /\ InitGatewayVars
  /\ last = [op |-> "init"]

NextKeepAlive ==
  \/ SupervisorStart
  \/ \E r \in BOOLEAN :
       /\ supervisor.cur \in DownNames => ~r
       /\ SupervisorProbeDone(r)
  \/ CleanupTimer
  \/ \E n \in ComingAndGoing :
       register(n, InitInfo, TRUE) /\ last' = RegisterCall(n, InitInfo)
         /\ RegistryOnly
  \/ \E n \in ComingAndGoing :
       unregister(n, TRUE) /\ last' = UnregisterCall(n) /\ RegistryOnly
  \/ Elapse

SpecKeepAlive == InitKeepAlive /\ [][NextKeepAlive]_vars

(***************************************************************************)
(* The path a proxied request is forwarded with (part_001:91-95, 238).     *)
(* Strings are sequences of characters, so that String.replace and         *)
(* String.split work on them as they do in the code.                       *)
(***************************************************************************)
\* longest rest of an inbound path, after the mount prefix
MaxRestLen == 3

\* the characters of the rest of an inbound path
RestChars == {"/", "?", "x", "1"}

\* part_001:91-95: app.use(prefix, this.proxyToService(serviceName))
Routes ==
  { [prefix |-> <<"/", "a", "p", "i", "/", "a", "u", "t", "h">>,
     serviceName |-> <<"u", "s", "e", "r", "-", "s", "e", "r", "v", "i", "c", "e">>],
    [prefix |-> <<"/", "a", "p", "i", "/", "u", "s", "e", "r", "s">>,
     serviceName |-> <<"u", "s", "e", "r", "-", "s", "e", "r", "v", "i", "c", "e">>],
    [prefix |-> <<"/", "a", "p", "i", "/", "i", "t", "e", "m", "s">>,
     serviceName |-> <<"i", "t", "e", "m", "-", "s", "e", "r", "v", "i", "c", "e">>],
    [prefix |-> <<"/", "a", "p", "i", "/", "l", "i", "s", "t", "s">>,
     serviceName |-> <<"l", "i", "s", "t", "-", "s", "e", "r", "v", "i", "c", "e">>] }

\* what may follow the prefix in a URL the route matches: nothing, or a
\* continuation that starts a new segment or the query string
Rests ==
  { r \in UNION {[1..n -> RestChars] : n \in 0..MaxRestLen} :
      r = <<>> \/ r[1] \in {"/", "?"} }

\* the first index at which pat occurs in str, 0 if it does not
IndexOf(str, pat) ==
  LET hits == {i \in 1..(Len(str) - Len(pat) + 1) :
                 SubSeq(str, i, i + Len(pat) - 1) = pat}
  IN IF hits = {} THEN 0 ELSE CHOOSE i \in hits : \A j \in hits : i <= j

\* String.prototype.replace with a string pattern: the first occurrence
StringReplace(str, pat, by) ==
  LET i == IndexOf(str, pat) IN
  IF i = 0 THEN str
  ELSE SubSeq(str, 1, i - 1) \o by \o SubSeq(str, i + Len(pat), Len(str))

\* str.split(sep)[0]
SplitFirst(str, sep) ==
  LET i == IndexOf(str, <<sep>>) IN
  IF i = 0 THEN str ELSE SubSeq(str, 1, i - 1)

\* part_001:238: req.originalUrl.replace(`/api/${serviceName.split('-')[0]}`, '')
TargetPath(originalUrl, serviceName) ==
  StringReplace(originalUrl,
                <<"/", "a", "p", "i", "/">> \o SplitFirst(serviceName, "-"),
                <<>>)

\* a request matched by one of the routes
InitRoute ==
  /\ now = StartTime
  /\ ticks = 0
  /\ services \in [ServiceNames -> InitRecords({0})]
  /\ disk = services
  /\ writeFailures = 0
  /\ gate = [n \in AllNames |-> "none"]
  /\ InitGatewayVars
  /\ \E route \in Routes, rest \in Rests :
       last = [op |-> "request", route |-> route, rest |-> rest,
               originalUrl |-> route.prefix \o rest]

\* part_001:238: the handler builds the path of the target URL
BuildTargetUrl ==
  /\ last.op = "request"
  /\ last' = [op |-> "forward", route |-> last.route, rest |-> last.rest,
              originalUrl |-> last.originalUrl,
              path |-> TargetPath(last.originalUrl, last.route.serviceName)]
  /\ UNCHANGED <<now, ticks>>
  /\ UNCHANGED regVars
  /\ UNCHANGED gwVars
  /\ UNCHANGED timerVars
  /\ UNCHANGED aggVars
  /\ UNCHANGED snapVars

NextRoute == BuildTargetUrl

SpecRoute == InitRoute /\ [][NextRoute]_vars

(***************************************************************************)
(* The aggregated endpoints next to proxied traffic for a backend they     *)
(* call: the breaker of that backend can be in any of its states when the  *)
(* dashboard or the search handler runs.  The proxied calls come one at a   *)
(* time.                                                                   *)
(***************************************************************************)
\* the backend that gets proxied traffic while the aggregator runs
AggregatorTraffic == {"item-service"}

\* the three backends are in the registry file; the one with the traffic
\* is healthy or not
InitAggregator ==
  /\ now = StartTime
  /\ ticks = 0
  /\ services \in [ServiceNames -> InitRecords({0})]
  /\ \A n \in ServiceNames \ AggregatorTraffic : services[n].healthy
  /\ disk = services
  /\ writeFailures = 0
  /\ gate = [n \in AllNames |-> "none"]
  /\ InitGatewayVars
  /\ last = [op |-> "init"]

NextAggregator ==
  \/ \E n \in AggregatorTraffic : proxied = <<>> /\ ProxyArrive(n)
  \/ \E i \in 1..Len(proxied), a \in Answers : ProxyDone(i, a)
  \/ \E h \in AuthHeaders : DashboardArrive(h)
  \/ \E a \in AggAnswers : DashboardValidated(a)
  \/ \E a \in AggAnswers : DashboardLists(a)
  \/ \E a \in AggAnswers : DashboardItems(a)
  \/ \E q \in Queries, h \in AuthHeaders : SearchArrive(q, h)
  \/ \E a \in AggAnswers : SearchItems(a)
  \/ \E a \in AggAnswers : SearchLists(a)
  \/ \E d \in Deltas : Tick(d)

SpecAggregator == InitAggregator /\ [][NextAggregator]_vars

(***************************************************************************)
(* Claims about the registry, checked under SpecRegistry.                  *)
(***************************************************************************)
Bookkeeping == {"registeredAt", "lastHealthCheck", "healthy"}

\* C6: after register(name, info), whatever the registry held for name
\* before, discover(name) returns a record whose keys are those of info
\* plus registeredAt, lastHealthCheck and healthy, with info's values,
\* both timestamps "now" and healthy = true; no key of an earlier
\* registration survives and every other name keeps its record.
C6_RegisterRoundTrip ==
  last.op = "register" =>
    LET r == Discover(services, last.name) IN
    /\ r # Null
    /\ DOMAIN r = (DOMAIN last.info) \cup Bookkeeping
    /\ \A k \in (DOMAIN last.info) \ Bookkeeping : r[k] = last.info[k]
    /\ r.healthy = TRUE
    /\ parseDate(r.registeredAt) = now
    /\ parseDate(r.lastHealthCheck) = now
    /\ DOMAIN services = (DOMAIN last.pre) \cup {last.name}
    /\ \A m \in (DOMAIN last.pre) \ {last.name} : services[m] = last.pre[m]

\* C6 witness: a name held unhealthy with a "version" key is registered
\* again with an info that has no such key.
C6_Witness ==
  /\ last.op = "register"
  /\ last.name \in DOMAIN last.pre
  /\ ~last.pre[last.name].healthy
  /\ "version" \in DOMAIN last.pre[last.name]
  /\ "version" \notin DOMAIN last.info

\* C7 as stated: once updateHealth(name, false) has hit a registered name,
\* discover(name) returns nothing until updateHealth(name, true) is called.
C7_GatedUntilUpdateHealth ==
  \A n \in RegistryNames :
    gate[n] \in {"gated", "reregistered"} => Discover(services, n) = Null

\* C7 amended: once updateHealth(name, false) has hit a registered name,
\* discover(name) returns nothing until updateHealth(name, true) or
\* register(name, ...) is called; and whenever discover returns a record
\* it is the stored record of a present name whose healthy flag is true.
C7_GatedUntilUpdateOrRegister ==
  /\ \A n \in RegistryNames :
       gate[n] = "gated" => Discover(services, n) = Null
  /\ (last.op = "discover" /\ last.ret # Null) =>
       /\ last.name \in DOMAIN services
       /\ services[last.name].healthy = TRUE
       /\ last.ret = services[last.name]

\* C7 witness: discover was just called on a name that is present, was
\* marked unhealthy, and has seen the clock advance since.
C7_Witness ==
  /\ last.op = "discover"
  /\ last.ret = Null
  /\ last.name \in DOMAIN services
  /\ gate[last.name] = "gated"
  /\ parseDate(services[last.name].lastHealthCheck) < now

\* age of a record at the time of the sweep
AgeMs(rec) == now - parseDate(rec.lastHealthCheck)

\* C8: cleanup removes exactly the records whose lastHealthCheck is more
\* than 2 minutes old and leaves the others as they were (a record
\* 2 min 1 s old goes, one 1 min 59 s old or exactly 2 min old stays);
\* it returns true iff it removed a record.
C8_ReapExact ==
  last.op = "cleanup" =>
    /\ DOMAIN services =
         {n \in DOMAIN last.pre : AgeMs(last.pre[n]) <= 2 * 60 * 1000}
    /\ \A n \in DOMAIN services : services[n] = last.pre[n]
    /\ \A n \in DOMAIN last.pre :
         /\ AgeMs(last.pre[n]) = 121 * 1000 => n \notin DOMAIN services
         /\ AgeMs(last.pre[n]) \in {119 * 1000, 120 * 1000} => n \in DOMAIN services
    /\ last.ret = (DOMAIN services # DOMAIN last.pre)

\* C8 witness: one sweep removed a record 2 min 1 s old and kept one
\* 1 min 59 s old.
C8_Witness ==
  /\ last.op = "cleanup"
  /\ last.ret = TRUE
  /\ \E n \in DOMAIN last.pre :
       AgeMs(last.pre[n]) = 121 * 1000 /\ n \notin DOMAIN services
  /\ \E n \in DOMAIN last.pre :
       AgeMs(last.pre[n]) = 119 * 1000 /\ n \in DOMAIN services

\* C8 second witness: a record exactly 2 minutes old survived a sweep
C8_WitnessBoundary ==
  /\ last.op = "cleanup"
  /\ \E n \in DOMAIN last.pre :
       AgeMs(last.pre[n]) = 120 * 1000 /\ n \in DOMAIN services

(***************************************************************************)
(* Claims about the circuit breaker and the proxy, checked under           *)
(* SpecBreaker.                                                            *)
(***************************************************************************)
\* C1: from a breaker that is CLOSED with counter 0, after one and after
\* two failed proxied calls in a row the breaker is still CLOSED, and
\* after the third it is OPEN; the counter is the number of failures.
C1_ThreeFailuresOpen ==
  \A n \in TrafficNames :
    /\ streak[n] \in {1, 2} =>
         /\ circuitBreakers[n].state = "CLOSED"
         /\ circuitBreakers[n].failures = streak[n]
    /\ streak[n] = 3 =>
         /\ circuitBreakers[n].state = "OPEN"
         /\ circuitBreakers[n].failures = 3

\* C1 witness: the third failed call in a row has just completed
C1_Witness ==
  /\ last.op = "proxyDone"
  /\ last.kind # "ok"
  /\ streak[last.svc] = 3
  /\ last.pre.state = "CLOSED"
  /\ circuitBreakers[last.svc].state = "OPEN"

\* the breaker was OPEN when the request arrived and at most 30 s had
\* passed since its last failure
ArrivedInCooldown ==
  /\ last.op = "proxyArrive"
  /\ last.pre.state = "OPEN"
  /\ now - last.pre.lastFailure <= 30 * 1000

\* the breaker was OPEN when the request arrived and more than 30 s had
\* passed since its last failure
ArrivedAfterCooldown ==
  /\ last.op = "proxyArrive"
  /\ last.pre.state = "OPEN"
  /\ now - last.pre.lastFailure > 30 * 1000

\* C2: a request arriving while the breaker is OPEN and at most 30 s after
\* its last failure is answered 503 with circuitBreaker OPEN, without
\* discovery and without dispatch, and leaves the breaker (state, counter,
\* time of last failure) as it was.
C2_FastFail ==
  ArrivedInCooldown =>
    /\ last.status = 503
    /\ last.circuitBreaker = "OPEN"
    /\ ~last.discovered
    /\ ~last.dispatched
    /\ Len(proxied) = last.inFlight
    /\ circuitBreakers[last.svc] = last.pre

\* C2 witness: a request is turned away exactly 30 s after the last
\* failure
C2_Witness ==
  /\ ArrivedInCooldown
  /\ now - last.pre.lastFailure = 30 * 1000
  /\ last.outcome = "fastfail"

\* C3 as stated, reading "is attempted" as "is let through the gate": a
\* request arriving while OPEN more than 30 s after the last failure
\* moves the breaker to HALF-OPEN and is let through; if that call
\* succeeds the breaker is CLOSED with counter 0 when it completes.
C3_TrialSuccessCloses ==
  /\ ArrivedAfterCooldown =>
       /\ circuitBreakers[last.svc].state = "HALF-OPEN"
       /\ last.outcome # "fastfail"
  /\ (last.op = "proxyDone" /\ last.trial /\ last.kind = "ok") =>
       /\ circuitBreakers[last.svc].state = "CLOSED"
       /\ circuitBreakers[last.svc].failures = 0

\* C3 amended: such a request moves the breaker to HALF-OPEN and is let
\* through the gate, and is dispatched exactly when discovery finds a
\* healthy record; if that call succeeds while the breaker is still
\* HALF-OPEN, the breaker is CLOSED with counter 0 when it completes; a
\* success that finds the breaker in another state leaves it as it is.
C3_TrialSuccessClosesIfHalfOpen ==
  /\ ArrivedAfterCooldown =>
       /\ circuitBreakers[last.svc].state = "HALF-OPEN"
       /\ circuitBreakers[last.svc].failures = last.pre.failures
       /\ last.outcome # "fastfail"
       /\ last.dispatched <=> (Discover(services, last.svc) # Null)
       /\ Len(proxied) = last.inFlight + (IF last.dispatched THEN 1 ELSE 0)
  /\ (last.op = "proxyDone" /\ last.kind = "ok") =>
       IF last.pre.state = "HALF-OPEN"
         THEN /\ circuitBreakers[last.svc].state = "CLOSED"
              /\ circuitBreakers[last.svc].failures = 0
         ELSE circuitBreakers[last.svc] = last.pre

\* C3 witness: the call that moved the breaker to HALF-OPEN has succeeded
\* and closed it
C3_Witness ==
  /\ last.op = "proxyDone"
  /\ last.trial
  /\ last.kind = "ok"
  /\ last.pre.state = "HALF-OPEN"
  /\ last.pre.failures >= 3
  /\ circuitBreakers[last.svc].state = "CLOSED"

\* C4: when a proxied call fails while the breaker is HALF-OPEN, the
\* breaker is OPEN afterwards, its counter is one higher and its time of
\* last failure is the time of this failure, so that a request arriving
\* up to 30 s later is turned away.
C4_TrialFailureReopens ==
  (last.op = "proxyDone" /\ last.kind # "ok" /\ last.pre.state = "HALF-OPEN") =>
    /\ circuitBreakers[last.svc].state = "OPEN"
    /\ circuitBreakers[last.svc].failures = last.pre.failures + 1
    /\ circuitBreakers[last.svc].lastFailure = now
    /\ ~GateCheck(circuitBreakers[last.svc], now + 30 * 1000).pass

\* C4 witness: the call that moved the breaker to HALF-OPEN has failed
C4_Witness ==
  /\ last.op = "proxyDone"
  /\ last.trial
  /\ last.kind # "ok"
  /\ last.pre.state = "HALF-OPEN"
  /\ now > last.pre.lastFailure + 30 * 1000
  /\ circuitBreakers[last.svc].state = "OPEN"

\* C5: a request whose breaker lets it through and whose service is absent
\* from the registry, or present with healthy = false, is answered 503 and
\* nothing is sent downstream.
C5_DiscoveryMiss ==
  (/\ last.op = "proxyArrive"
   /\ ~ArrivedInCooldown
   /\ \/ last.svc \notin DOMAIN services
      \/ ~services[last.svc].healthy) =>
    /\ last.status = 503
    /\ last.outcome = "miss"
    /\ ~last.dispatched
    /\ Len(proxied) = last.inFlight

\* C5 witness: a request for a service marked unhealthy met a breaker it
\* had just moved to HALF-OPEN
C5_Witness ==
  /\ last.op = "proxyArrive"
  /\ last.outcome = "miss"
  /\ last.svc \in DOMAIN services
  /\ ~services[last.svc].healthy
  /\ circuitBreakers[last.svc].state = "HALF-OPEN"

\* C5 second witness: the service is not in the registry at all
C5_WitnessAbsent ==
  /\ last.op = "proxyArrive"
  /\ last.outcome = "miss"
  /\ last.svc \notin DOMAIN services


(***************************************************************************)
(* Claims about the dashboard endpoint, checked under SpecDashboard.       *)
(***************************************************************************)
Downstream == {"list-service", "item-service"}

\* the backends in `calls` that hold the lists and the items
DownstreamCalls(calls) ==
  {i \in 1..Len(calls) : calls[i] \in Downstream}

C9_WitnessNoBearer ==
  /\ last.op = "dashboard"
  /\ last.header = "basic"
  /\ last.status = 401
  /\ Discover(services, "user-service") # Null

\* the failure detail the catch block embeds for a fetch that came to `k`
FailureDetail(k) == IF k = "miss" THEN "TypeError" ELSE k

FetchFailed(k) == k \in {"http", "net", "miss"}

\* C10: for a dashboard request whose credential the user backend
\* accepted, a lists fetch or an items fetch that fails (the backend is
\* not discoverable, answers with an error status, or does not answer)
\* makes the endpoint answer 500 with success false and the detail of that
\* failure; a success response comes only after both the list backend and
\* the item backend were called and both answered.
C10_DashboardAllOrNothing ==
  last.op = "dashboard" /\ last.header = "bearer" /\ last.validate = "ok" =>
    /\ FetchFailed(last.lists) =>
         /\ last.status = 500
         /\ ~last.success
         /\ last.error = FailureDetail(last.lists)
         /\ last.items = ""
    /\ FetchFailed(last.items) =>
         /\ last.status = 500
         /\ ~last.success
         /\ last.error = FailureDetail(last.items)
    /\ last.success =>
         /\ last.status = 200
         /\ last.calls = <<"user-service", "list-service", "item-service">>
         /\ last.lists \in {"ok", "nack"}
         /\ last.items \in {"ok", "nack"}

\* the lists were fetched, the items fetch failed, and the answer is 500
C10_Witness ==
  /\ last.op = "dashboard"
  /\ last.validate = "ok"
  /\ last.lists = "ok"
  /\ last.items \in {"http", "net"}
  /\ last.status = 500

\* the lists fetch failed: the item backend was never called
C10_WitnessListsFailed ==
  /\ last.op = "dashboard"
  /\ last.validate = "ok"
  /\ last.lists = "http"
  /\ last.status = 500
  /\ Discover(services, "item-service") # Null

\* both fetches succeeded and the dashboard was returned
C10_WitnessSuccess ==
  /\ last.op = "dashboard"
  /\ last.success
  /\ last.lists = "ok"
  /\ last.items = "ok"


(***************************************************************************)
(* Claims about the search endpoint, checked under SpecSearch.             *)
(***************************************************************************)
\* the keys of the `data` object of the last search response
Sections == DOMAIN last.data

\* C11: a search request with a non-empty query is answered with overall
\* success, and the outcome of each sub-query is recorded on its own.
\* Without a bearer credential only the item backend is asked: the data
\* has the item results when the item search succeeded, and neither a
\* lists section nor a lists error.  With a bearer credential the lists
\* sub-query runs whatever became of the item search: a failed item search
\* leaves the item-error marker and no items, and the lists section is
\* there exactly when the lists call succeeded.
C11_SearchPartialTolerance ==
  last.op = "search" /\ HasQuery(last.q) =>
    /\ last.status = 200
    /\ last.success
    /\ Sections \subseteq {"items", "itemsError", "lists", "listsError"}
    /\ last.items # ""
    /\ "items" \in Sections <=> last.items = "ok"
    /\ "itemsError" \in Sections <=> FetchFailed(last.items)
    /\ FetchFailed(last.items) =>
         last.data["itemsError"] = FailureDetail(last.items)
    /\ last.header # "bearer" =>
         /\ Sections \subseteq {"items", "itemsError"}
         /\ last.lists = ""
         /\ \A i \in 1..Len(last.calls) : last.calls[i] = "item-service"
    /\ last.header = "bearer" =>
         /\ last.lists # ""
         /\ "lists" \in Sections <=> last.lists = "ok"
         /\ "listsError" \in Sections <=> last.lists \in {"http", "net", "miss", "bad"}

\* a credential was sent, the item search failed, the lists were found
C11_Witness ==
  /\ last.op = "search"
  /\ last.header = "bearer"
  /\ Sections = {"itemsError", "lists"}
  /\ last.data["itemsError"] \in {"http", "net"}
  /\ last.items \in {"http", "net"}
  /\ last.lists = "ok"
  /\ last.calls = <<"item-service", "list-service">>

\* no credential: item results and nothing about lists
C11_WitnessNoCredential ==
  /\ last.op = "search"
  /\ last.header = "missing"
  /\ Sections = {"items"}
  /\ Discover(services, "list-service") # Null


(***************************************************************************)
(* More claims about proxied calls, checked under SpecBreaker.             *)
(***************************************************************************)
\* C12 as stated: a downstream answer with an HTTP error status is relayed
\* with that status and body and leaves the breaker's counter and state
\* as they were; a call without an answer is answered 503 and recorded as
\* a failure.
C12_HttpErrorLeavesBreaker ==
  last.op = "proxyDone" =>
    /\ last.kind = "http" =>
         /\ last.relayed
         /\ last.status \in {a.status : a \in {b \in Answers : b.kind = "http"}}
         /\ circuitBreakers[last.svc].failures = last.pre.failures
         /\ circuitBreakers[last.svc].state = last.pre.state
    /\ last.kind = "net" =>
         /\ ~last.relayed
         /\ last.status = 503
         /\ circuitBreakers[last.svc].failures = last.pre.failures + 1

\* C12 as amended: a downstream answer with an HTTP error status is relayed
\* with that status and body, a call without an answer is answered with a
\* synthesized 503, and both record a breaker failure: the counter goes up
\* by one, the time of the failure is stored, and the breaker is OPEN when
\* the counter reaches 3 or the breaker was HALF-OPEN.
C12_HttpErrorRelayedAndCounted ==
  last.op = "proxyDone" /\ last.kind # "ok" =>
    /\ last.kind = "http" =>
         /\ last.relayed
         /\ last.status \in {a.status : a \in {b \in Answers : b.kind = "http"}}
    /\ last.kind = "net" => ~last.relayed /\ last.status = 503
    /\ circuitBreakers[last.svc].failures = last.pre.failures + 1
    /\ circuitBreakers[last.svc].lastFailure = now
    /\ circuitBreakers[last.svc].state =
         IF last.pre.failures + 1 >= 3 \/ last.pre.state = "HALF-OPEN"
           THEN "OPEN" ELSE last.pre.state

\* three answers with an HTTP error status have opened a CLOSED breaker
C12_Witness ==
  /\ last.op = "proxyDone"
  /\ last.kind = "http"
  /\ last.relayed
  /\ streak[last.svc] = 3
  /\ last.pre.state = "CLOSED"
  /\ circuitBreakers[last.svc].state = "OPEN"


(***************************************************************************)
(* Claim about the forwarded path, checked under SpecRoute.                *)
(***************************************************************************)
\* C13: the path forwarded to the backend is the inbound path with the
\* matched gateway prefix removed, for each of the four routed prefixes:
\* what is forwarded is what followed the prefix.
C13_PrefixStripped ==
  last.op = "forward" => last.path = last.rest


(***************************************************************************)
(* Claim about getAllServices, checked under SpecSnapshot.                 *)
(***************************************************************************)
\* the names of a snapshot with the healthy flag and lastHealthCheck of
\* each record, as the holder reads them
SnapshotView(snap, svcs) ==
  [n \in DOMAIN snap |->
     [healthy |-> Shown(snap, svcs)[n].healthy,
      lastHealthCheck |-> Shown(snap, svcs)[n].lastHealthCheck]]

\* C14: a snapshot returned by getAllServices is immutable with respect to
\* the registry: a later register, unregister, updateHealth or cleanup
\* does not change the names the snapshot shows nor the healthy flag and
\* lastHealthCheck of its records, and a change made to the snapshot does
\* not change the registry.
C14_SnapshotImmutable ==
  [][ snapshot # Null =>
        /\ last'.op \in {"register", "unregister", "updateHealth", "cleanup"} =>
             SnapshotView(snapshot', services') = SnapshotView(snapshot, services)
        /\ last'.op \in {"snapshotSet", "snapshotDelete"} =>
             services' = services
    ]_vars


(***************************************************************************)
(* Claims about the life of a breaker, checked under SpecBreaker.          *)
(***************************************************************************)
\* C15 as stated: in every step, a breaker that moves into CLOSED has its
\* counter set to 0, and a counter that goes to 0 does so in a step that
\* moves the breaker into CLOSED.
C15_ResetExactlyOnClose ==
  [][ \A n \in ServiceNames :
        LET cb == circuitBreakers[n]
            cb2 == circuitBreakers'[n]
        IN /\ cb.state # "CLOSED" /\ cb2.state = "CLOSED" => cb2.failures = 0
           /\ cb.failures # 0 /\ cb2.failures = 0 =>
                cb.state # "CLOSED" /\ cb2.state = "CLOSED"
    ]_vars

\* C15 as amended: in every step, a breaker that moves into CLOSED has its
\* counter set to 0, and a counter that goes to 0 does so in a step that
\* leaves the breaker CLOSED: the success of a call let through while the
\* breaker was HALF-OPEN, or a probe of the status endpoint that reached
\* the service, from whatever state the breaker was in, CLOSED included.
C15_ResetOnlyWithClosed ==
  [][ \A n \in ServiceNames :
        LET cb == circuitBreakers[n]
            cb2 == circuitBreakers'[n]
        IN /\ cb.state # "CLOSED" /\ cb2.state = "CLOSED" => cb2.failures = 0
           /\ cb.failures # 0 /\ cb2.failures = 0 =>
                /\ cb2.state = "CLOSED"
                /\ \/ last'.op = "proxyDone" /\ last'.kind = "ok"
                      /\ last'.svc = n /\ cb.state = "HALF-OPEN"
                   \/ last'.op = "statusProbe" /\ last'.reached
                      /\ last'.svc = n
    ]_vars

\* a probe of the status endpoint has reset the counter of a breaker that
\* was CLOSED all along
C15_Witness ==
  /\ last.op = "statusProbe"
  /\ last.reached
  /\ last.pre.state = "CLOSED"
  /\ last.pre.failures > 0
  /\ circuitBreakers[last.svc] = [failures |-> 0, state |-> "CLOSED",
                                  lastFailure |-> last.pre.lastFailure]

\* the success of a call let through in HALF-OPEN has closed the breaker
C15_WitnessTrial ==
  /\ last.op = "proxyDone"
  /\ last.kind = "ok"
  /\ last.pre.state = "HALF-OPEN"
  /\ circuitBreakers[last.svc].state = "CLOSED"
  /\ circuitBreakers[last.svc].failures = 0


\* the breaker of the last event was CLOSED before it and is OPEN now
JustOpened ==
  /\ last.op \in {"proxyDone", "statusProbe"}
  /\ last.pre # Null
  /\ last.pre.state = "CLOSED"
  /\ circuitBreakers[last.svc].state = "OPEN"

\* C16 as stated: a CLOSED breaker moves to OPEN only when the three most
\* recent completed calls to that service all failed.
C16_OpensOnThreeInARow ==
  JustOpened =>
    /\ Len(recent[last.svc]) = 3
    /\ \A i \in 1..3 : recent[last.svc][i]

\* C16 as amended: the counter counts the failures since it was last set
\* to 0, consecutive or not.  A CLOSED breaker moves to OPEN only by a
\* failed proxied call or a failed probe of the status endpoint that takes
\* the counter from 2 to 3, and a proxied call that succeeds while the
\* breaker is CLOSED leaves counter and state as they were, so the
\* failures before it still count.
C16_OpensOnThirdFailure ==
  /\ JustOpened =>
       /\ last.pre.failures = 2
       /\ circuitBreakers[last.svc].failures = 3
       /\ \/ last.op = "proxyDone" /\ last.kind # "ok"
          \/ last.op = "statusProbe" /\ ~last.reached
  /\ last.op = "proxyDone" /\ last.kind = "ok" /\ last.pre.state = "CLOSED" =>
       circuitBreakers[last.svc] = last.pre

\* the breaker has opened on a failed call although the call before it
\* had succeeded
C16_Witness ==
  /\ JustOpened
  /\ last.op = "proxyDone"
  /\ recent[last.svc] = <<TRUE, FALSE, TRUE>>


\* the last request arrived while the breaker was HALF-OPEN and the call
\* that had moved it there was still in flight
ArrivedDuringTrial ==
  /\ last.op = "proxyArrive"
  /\ last.pre.state = "HALF-OPEN"
  /\ \E i \in 1..last.inFlight :
       proxied[i].svc = last.svc /\ proxied[i].trial

\* C17 as stated: while the trial call of a HALF-OPEN breaker is in
\* flight, another proxied call for the same service is not dispatched.
C17_OneTrialOnly ==
  ArrivedDuringTrial => ~last.dispatched

\* C17 as amended: HALF-OPEN does not limit the calls.  A proxied call
\* arriving while the trial call of a HALF-OPEN breaker is in flight
\* passes the gate, which leaves the breaker as it was, and is dispatched
\* whenever discovery returns the service; otherwise it is answered 503
\* as any discovery miss.
C17_HalfOpenAdmitsAll ==
  ArrivedDuringTrial =>
    /\ last.outcome # "fastfail"
    /\ last.discovered
    /\ circuitBreakers[last.svc] = last.pre
    /\ last.dispatched <=> Discover(services, last.svc) # Null
    /\ last.dispatched => Len(proxied) = last.inFlight + 1
    /\ ~last.dispatched => last.status = 503 /\ Len(proxied) = last.inFlight

\* a second call was dispatched while the trial call was in flight
C17_Witness ==
  /\ ArrivedDuringTrial
  /\ last.dispatched
  /\ Len(proxied) = 2
  /\ proxied[1].trial
  /\ ~proxied[2].trial


\* C18 as stated: only proxied calls change a breaker, and an OPEN
\* breaker stays OPEN, its counter never lowered, until a proxied call for
\* its service arrives more than 30 s after its last failure; neither a
\* timer nor the status endpoint changes it.
C18_OnlyProxyMoves ==
  [][ \A n \in ServiceNames :
        LET cb == circuitBreakers[n]
            cb2 == circuitBreakers'[n]
        IN /\ cb2 # cb =>
                last'.op \in {"proxyArrive", "proxyDone"} /\ last'.svc = n
           /\ cb.state = "OPEN" =>
                \/ cb2.state = "OPEN" /\ cb2.failures >= cb.failures
                \/ /\ last'.op = "proxyArrive"
                   /\ now - cb.lastFailure > 30 * 1000
                   /\ cb2 = [cb EXCEPT !.state = "HALF-OPEN"]
    ]_vars

\* C18 as amended: a breaker is changed only by a proxied call for its
\* service or by a probe of the status endpoint to its service, never by
\* a timer.  An OPEN breaker stays OPEN, its counter never lowered, until
\* a proxied call for its service arrives more than 30 s after its last
\* failure, which makes it HALF-OPEN, or a probe of the status endpoint
\* reaches its service, which makes it CLOSED with counter 0 at once.  A
\* probe of the status endpoint that fails counts as a failure.
C18_ProxyOrStatusMoves ==
  [][ \A n \in ServiceNames :
        LET cb == circuitBreakers[n]
            cb2 == circuitBreakers'[n]
        IN /\ cb2 # cb =>
                /\ last'.op \in {"proxyArrive", "proxyDone", "statusProbe"}
                /\ last'.svc = n
           /\ cb.state = "OPEN" =>
                \/ cb2.state = "OPEN" /\ cb2.failures >= cb.failures
                \/ /\ last'.op = "proxyArrive"
                   /\ now - cb.lastFailure > 30 * 1000
                   /\ cb2 = [cb EXCEPT !.state = "HALF-OPEN"]
                \/ /\ last'.op = "statusProbe"
                   /\ last'.reached
                   /\ cb2 = [cb EXCEPT !.state = "CLOSED", !.failures = 0]
           /\ last'.op = "statusProbe" /\ last'.svc = n /\ ~last'.reached =>
                cb2.failures = cb.failures + 1 /\ cb2.lastFailure = now
    ]_vars

\* a probe of the status endpoint has closed an OPEN breaker before its
\* cooldown was over
C18_Witness ==
  /\ last.op = "statusProbe"
  /\ last.reached
  /\ last.pre.state = "OPEN"
  /\ now - last.pre.lastFailure <= 30 * 1000
  /\ circuitBreakers[last.svc].state = "CLOSED"
  /\ circuitBreakers[last.svc].failures = 0

\* a timer has fired while a breaker was OPEN, and it is OPEN still
C18_WitnessTimer ==
  /\ last.op \in {"supervisorProbe", "cleanup"}
  /\ \E n \in ServiceNames : circuitBreakers[n].state = "OPEN"


(***************************************************************************)
(* Claim about the aggregator and the breakers, checked under              *)
(* SpecAggregator.                                                         *)
(***************************************************************************)
\* the step is one of the dashboard or of the search handler
AggregatorStep ==
  last'.op \in {"dashboardCall", "searchCall", "dashboard", "search"}

\* the registry holds a record of n whose healthy flag is set
HealthyRecord(n) == n \in DOMAIN services /\ services[n].healthy

\* the breaker turns proxied requests for n away at time t
FastFails(cb, t) == cb.state = "OPEN" /\ t - cb.lastFailure <= 30 * 1000

\* the sub-call to item-service that the step settles has failed
ItemsCallFailed ==
  \/ dash.pc = "items" /\ last'.op = "dashboard" /\ last'.items \in {"http", "net"}
  \/ search.pc = "items" /\ last'.op \in {"search", "searchCall"}
     /\ search'.items \in {"http", "net"}

\* C19 as stated: a sub-call of the dashboard or of the search to a
\* service whose breaker is OPEN within its cooldown is not dispatched,
\* and a failed sub-call is recorded as a failure on the breaker of that
\* service.
C19_AggregatorGated ==
  [][ /\ last'.op \in {"dashboardCall", "searchCall"} =>
           ~FastFails(circuitBreakers[last'.svc], now)
      /\ ItemsCallFailed =>
           circuitBreakers'["item-service"].failures =
             circuitBreakers["item-service"].failures + 1
    ]_vars

\* C19 as amended: the dashboard and the search go through discovery only.
\* No step of theirs reads or writes a breaker: a sub-call is dispatched
\* exactly when the registry holds a healthy record of the service, also
\* while the breaker of that service is OPEN within its cooldown, and a
\* failed sub-call leaves every breaker as it was.
C19_AggregatorBypassesBreaker ==
  [][ LET searchStarts ==
            /\ search.pc = "idle"
            /\ last'.op \in {"search", "searchCall"}
            /\ ~(last'.op = "search" /\ last'.status = 400)
          listsAnswered ==
            /\ dash.pc = "lists"
            /\ \/ last'.op = "dashboardCall"
               \/ last'.op = "dashboard" /\ last'.lists \notin {"http", "net"}
      IN
      AggregatorStep =>
        /\ circuitBreakers' = circuitBreakers
        /\ last'.op \in {"dashboardCall", "searchCall"} =>
             HealthyRecord(last'.svc)
        /\ searchStarts =>
             (search'.pc = "items" <=> HealthyRecord("item-service"))
        /\ listsAnswered =>
             (dash'.pc = "items" <=> HealthyRecord("item-service"))
    ]_vars

\* the search has just dispatched its item call although the breaker of
\* item-service is OPEN and its cooldown not over
C19_Witness ==
  /\ last.op = "searchCall"
  /\ last.svc = "item-service"
  /\ FastFails(circuitBreakers["item-service"], now)

\* the dashboard has got no answer from item-service and the breaker of
\* item-service is CLOSED with counter 0
C19_WitnessFailure ==
  /\ last.op = "dashboard"
  /\ last.items = "net"
  /\ circuitBreakers["item-service"] =
       [failures |-> 0, state |-> "CLOSED", lastFailure |-> 0]


(***************************************************************************)
(* Claim about the health supervision, checked under SpecSupervisor.       *)
(***************************************************************************)
\* C20 as stated: within a cycle the probe of a service is issued without
\* waiting for the probe of another service to complete: while a probe is
\* in flight no service of the snapshot is still waiting for its own.
C20_ProbesConcurrent ==
  supervisor.cur # "" => supervisor.todo = {}

\* C20 as amended: within a cycle the probes are issued one after the
\* other.  The cycle starts with the probe of one service of the snapshot
\* and keeps the others waiting; the probe of a waiting service is issued
\* in the very step in which the probe before it settles, whether that one
\* reached its service or not, and every outcome is written to the
\* registry in the step in which its probe settles.
C20_ProbesSequential ==
  [][ /\ last'.op = "supervisorStart" =>
           IF DOMAIN services = {}
             THEN supervisor'.cur = ""
             ELSE /\ supervisor'.cur \in DOMAIN services
                  /\ supervisor'.todo = (DOMAIN services) \ {supervisor'.cur}
                  /\ supervisor'.sent = now
      /\ supervisor' # supervisor /\ supervisor.cur # "" =>
           /\ last'.op = "supervisorProbe"
           /\ last'.svc = supervisor.cur
           /\ IF supervisor.todo = {}
                THEN supervisor'.cur = ""
                ELSE /\ supervisor'.cur \in supervisor.todo
                     /\ supervisor'.todo = supervisor.todo \ {supervisor'.cur}
                     /\ supervisor'.sent = now
           /\ supervisor.cur \in DOMAIN services =>
                /\ services'[supervisor.cur].healthy = last'.reached
                /\ parseDate(services'[supervisor.cur].lastHealthCheck) = now
    ]_vars

\* a probe that did not reach its service has settled some time after the
\* cycle began, and only now the probe of a sibling is issued
C20_Witness ==
  /\ last.op = "supervisorProbe"
  /\ ~last.reached
  /\ supervisor.cur # ""
  /\ supervisor.cur # last.svc
  /\ supervisor.sent > supDue - HealthIntervalMs


(***************************************************************************)
(* Claim about the two health channels, checked under SpecChannels.        *)
(***************************************************************************)
\* the record but for the two fields updateHealth writes
Identity(rec) == [rec EXCEPT !.healthy = TRUE, !.lastHealthCheck = toISOString(0)]

\* C21: a settled probe of the health supervisor writes its outcome to the
\* healthy flag of the probed record (reached: true, not reached: false),
\* leaves every other record, the set of records and every breaker as they
\* were; a proxied call, on arrival and on settling, leaves the registry
\* (memory and file) as it was and changes no breaker but its service's.
C21_ChannelsIndependent ==
  [][ /\ last'.op = "supervisorProbe" =>
           /\ circuitBreakers' = circuitBreakers
           /\ DOMAIN services' = DOMAIN services
           /\ \A n \in DOMAIN services :
                IF n = last'.svc
                  THEN /\ services'[n].healthy = last'.reached
                       /\ Identity(services'[n]) = Identity(services[n])
                  ELSE services'[n] = services[n]
      /\ last'.op \in {"proxyArrive", "proxyDone"} =>
           /\ services' = services
           /\ disk' = disk
           /\ \A n \in ServiceNames \ {last'.svc} :
                circuitBreakers'[n] = circuitBreakers[n]
    ]_vars

\* a failed probe has just marked item-service unhealthy while its breaker
\* is CLOSED, and failed proxied calls have opened the breaker of
\* user-service while the registry has it healthy
C21_Witness ==
  /\ last.op = "supervisorProbe"
  /\ last.svc = "item-service"
  /\ ~last.reached
  /\ ~services["item-service"].healthy
  /\ circuitBreakers["item-service"].state = "CLOSED"
  /\ services["user-service"].healthy
  /\ circuitBreakers["user-service"].state = "OPEN"

\* a failed proxied call has opened the breaker of a service the registry
\* has healthy
C21_WitnessProxy ==
  /\ last.op = "proxyDone"
  /\ last.pre.state = "CLOSED"
  /\ circuitBreakers[last.svc].state = "OPEN"
  /\ services[last.svc].healthy

\* a probe that reached its service has marked it healthy while its breaker
\* is OPEN
C21_WitnessReached ==
  /\ last.op = "supervisorProbe"
  /\ last.reached
  /\ services[last.svc].healthy
  /\ circuitBreakers[last.svc].state = "OPEN"


(***************************************************************************)
(* Claim about probe outcomes for records that are gone, checked under     *)
(* SpecProbeRace.                                                          *)
(***************************************************************************)
\* C22: updateHealth for a name the registry does not hold, called
\* directly or by the health supervisor with the outcome of a probe,
\* returns false and leaves the registry (memory and file) as it was; no
\* call of it adds or removes a record.  So the outcome of a probe whose
\* service was unregistered or reaped after the cycle took its snapshot
\* does not bring the record back.
C22_NoRecordFromLateOutcome ==
  [][ /\ last'.op = "supervisorProbe" =>
           /\ last'.ret = (last'.svc \in DOMAIN services)
           /\ DOMAIN services' = DOMAIN services
           /\ last'.svc \notin DOMAIN services =>
                /\ ~last'.ret
                /\ services' = services
                /\ disk' = disk
      /\ last'.op = "updateHealth" =>
           /\ last'.ret = (last'.name \in DOMAIN services)
           /\ DOMAIN services' = DOMAIN services
           /\ last'.name \notin DOMAIN services =>
                /\ ~last'.ret
                /\ services' = services
                /\ disk' = disk
    ]_vars

\* the outcome of a probe has arrived for a service that is no longer in
\* the registry, and the registry has no record of it
C22_Witness ==
  /\ last.op = "supervisorProbe"
  /\ ~last.ret
  /\ last.svc \notin DOMAIN services

\* the sweep has just removed the record whose probe is in flight
C22_WitnessReaped ==
  /\ last.op = "cleanup"
  /\ supervisor.cur \in DOMAIN last.pre
  /\ supervisor.cur \notin DOMAIN services

\* the record whose probe is in flight has just been unregistered
C22_WitnessUnregistered ==
  /\ last.op = "unregister"
  /\ last.ret
  /\ supervisor.cur = last.name

\* the sweep has removed a record that is still to be probed in the
\* cycle under way
C22_WitnessReapedQueued ==
  /\ last.op = "cleanup"
  /\ \E n \in supervisor.todo : n \in DOMAIN last.pre /\ n \notin DOMAIN services


(***************************************************************************)
(* Claim about failed writes of the registry file, checked under           *)
(* SpecStorage.                                                            *)
(***************************************************************************)
\* the registry and the value returned when the call's write succeeds
Expected(call, svcs, t) ==
  CASE call.op = "register" ->
         [svcs |-> Registered(svcs, call.name, call.info, t), ret |-> TRUE]
    [] call.op = "unregister" ->
         [svcs |-> Delete(svcs, {call.name}), ret |-> call.name \in DOMAIN svcs]
    [] call.op = "updateHealth" ->
         [svcs |-> IF call.name \in DOMAIN svcs
                     THEN [svcs EXCEPT ![call.name] =
                             HealthUpdated(@, call.arg, t)]
                     ELSE svcs,
          ret |-> call.name \in DOMAIN svcs]
    [] call.op = "cleanup" ->
         [svcs |-> Delete(svcs, StaleNames(svcs, t)),
          ret |-> StaleNames(svcs, t) # {}]

\* the call changes the registry
Mutator(call) ==
  call.op \in {"register", "unregister", "updateHealth", "cleanup"}

C23_WitnessRegister ==
  /\ last.op = "register"
  /\ ~last.writeOk
  /\ last.name \in DOMAIN services
  /\ last.name \notin DOMAIN disk

\* unregister with a failed write
C23_WitnessUnregister ==
  /\ last.op = "unregister"
  /\ ~last.writeOk
  /\ last.name \notin DOMAIN services
  /\ last.name \in DOMAIN disk

\* updateHealth with a failed write
C23_WitnessUpdateHealth ==
  /\ last.op = "updateHealth"
  /\ ~last.writeOk
  /\ services[last.name].healthy = last.arg
  /\ disk[last.name].healthy # last.arg

\* a sweep with a failed write
C23_WitnessReap ==
  /\ last.op = "cleanup"
  /\ ~last.writeOk
  /\ DOMAIN services # DOMAIN disk

\* discover answers with a record the file does not have
C23_WitnessDiscover ==
  /\ last.op = "discover"
  /\ last.ret # Null
  /\ last.name \notin DOMAIN disk

\* the listing differs from the file
C23_WitnessList ==
  /\ last.op = "getAllServices"
  /\ last.ret # disk


(***************************************************************************)
(* Claims about the breaker's state and its counter, checked under         *)
(* SpecBreaker.                                                            *)
(***************************************************************************)
\* C24: however proxied calls and probes of the status endpoint
\* interleave, a breaker is CLOSED exactly when its failure counter is
\* below 3 (OPEN and HALF-OPEN have it at 3 or more); so a proxied call
\* that fails while the breaker is HALF-OPEN takes the counter to 3 or
\* more and opens the breaker by the threshold branch, never by the
\* "half-open failed" branch.
C24_ClosedIffBelowThreshold ==
  /\ \A n \in ServiceNames :
       /\ circuitBreakers[n].state \in {"CLOSED", "OPEN", "HALF-OPEN"}
       /\ circuitBreakers[n].state = "CLOSED" <=>
            circuitBreakers[n].failures < FailureThreshold
  /\ last.op = "proxyDone" /\ last.kind # "ok" /\ last.pre.state = "HALF-OPEN" =>
       /\ last.pre.failures + 1 >= FailureThreshold
       /\ circuitBreakers[last.svc].state = "OPEN"

\* a proxied call has failed while the breaker was HALF-OPEN, with another
\* proxied call to the service still in flight
C24_Witness ==
  /\ last.op = "proxyDone"
  /\ last.kind # "ok"
  /\ last.pre.state = "HALF-OPEN"
  /\ circuitBreakers[last.svc].state = "OPEN"
  /\ \E i \in 1..Len(proxied) : proxied[i].svc = last.svc

\* a probe of the status endpoint has closed a HALF-OPEN breaker while the
\* trial call was in flight
C24_WitnessStatus ==
  /\ last.op = "statusProbe"
  /\ last.reached
  /\ last.pre.state = "HALF-OPEN"
  /\ \E i \in 1..Len(proxied) : proxied[i].svc = last.svc /\ proxied[i].trial

\* a failed probe of the status endpoint has opened the breaker
C24_WitnessStatusOpens ==
  /\ last.op = "statusProbe"
  /\ ~last.reached
  /\ last.pre.state = "CLOSED"
  /\ circuitBreakers[last.svc].state = "OPEN"


\* the proxied calls to service n that are in flight
InFlightTo(n) == {i \in 1..Len(proxied) : proxied[i].svc = n}

\* C25: a breaker is HALF-OPEN only while a proxied call to its service is
\* in flight: a call that finds the breaker OPEN after the cooldown and
\* moves it to HALF-OPEN leaves it CLOSED or OPEN when it completes, also
\* when it completes with a discovery miss; so with no proxied call to the
\* service in flight the breaker is CLOSED or OPEN.
C25_HalfOpenOnlyDuringTrial ==
  \A n \in ServiceNames :
    InFlightTo(n) = {} => circuitBreakers[n].state \in {"CLOSED", "OPEN"}

\* C25 as the code has it: every proxied call that completes leaves the
\* breaker CLOSED or OPEN, the trial call included; a call that moves the
\* breaker from OPEN to HALF-OPEN and ends in a discovery miss leaves it
\* HALF-OPEN; and a breaker comes to be HALF-OPEN with no proxied call to
\* its service in flight only by such a miss.
C25_HalfOpenTrialOrMiss ==
  [][ /\ last'.op = "proxyDone" =>
           circuitBreakers'[last'.svc].state \in {"CLOSED", "OPEN"}
      /\ last'.op = "proxyArrive" /\ last'.outcome = "miss"
           /\ last'.pre.state = "OPEN" /\ last'.pre = circuitBreakers[last'.svc] =>
           /\ circuitBreakers'[last'.svc].state = "HALF-OPEN"
           /\ proxied' = proxied
      /\ \A n \in ServiceNames :
           /\ circuitBreakers'[n].state = "HALF-OPEN"
           /\ InFlightTo(n)' = {}
           /\ ~(circuitBreakers[n].state = "HALF-OPEN" /\ InFlightTo(n) = {})
           => /\ last'.op = "proxyArrive"
              /\ last'.svc = n
              /\ last'.outcome = "miss"
              /\ last'.pre.state = "OPEN"
    ]_vars

\* the trial call has completed and left the breaker CLOSED or OPEN
C25_Witness ==
  /\ last.op = "proxyDone"
  /\ last.trial
  /\ last.pre.state = "HALF-OPEN"
  /\ circuitBreakers[last.svc].state \in {"CLOSED", "OPEN"}
  /\ InFlightTo(last.svc) = {}

\* the call that moved the breaker to HALF-OPEN has been answered 503 for
\* a discovery miss, and the breaker is HALF-OPEN with nothing in flight
C25_WitnessMiss ==
  /\ last.op = "proxyArrive"
  /\ last.outcome = "miss"
  /\ last.pre.state = "OPEN"
  /\ circuitBreakers[last.svc].state = "HALF-OPEN"
  /\ InFlightTo(last.svc) = {}


(***************************************************************************)
(* Claim about the sweep under health supervision, checked under           *)
(* SpecKeepAlive.                                                          *)
(***************************************************************************)
\* C26: the outcome of a probe, failed or not, sets lastHealthCheck of the
\* probed record to the time it is written; with the supervisor's cycle
\* every 30 s and every probe over within 3 s, no sweep of the registry
\* finds a record older than 2 minutes: every sweep returns false and
\* leaves the registry as it was, also for a backend whose probes all
\* fail.  (What a sweep removes is exactly what has not been refreshed for
\* more than 2 minutes, and under supervision there is no such record.)
C26_SupervisedNeverReaped ==
  [][ /\ last'.op = "supervisorProbe" /\ last'.ret =>
           /\ parseDate(services'[last'.svc].lastHealthCheck) = now
           /\ services'[last'.svc].healthy = last'.reached
      /\ last'.op = "cleanup" =>
           /\ services' = Delete(services, StaleNames(services, now))
           /\ StaleNames(services, now) = {}
           /\ ~last'.ret
           /\ services' = services
    ]_vars

\* the third sweep has run, and the backend whose every probe failed,
\* in the registry since before the gateway started, is still there
C26_Witness ==
  /\ last.op = "cleanup"
  /\ now >= StartTime + 3 * CleanupIntervalMs
  /\ \E n \in DownNames :
       /\ n \in DOMAIN services
       /\ ~services[n].healthy
       /\ parseDate(services[n].registeredAt) < StartTime
       /\ now - parseDate(services[n].lastHealthCheck) <= TtlMinutes * MsPerMinute

\* a failed probe has refreshed a record that was older than 2 minutes
C26_WitnessRefreshed ==
  /\ last.op = "supervisorProbe"
  /\ ~last.reached
  /\ last.ret
  /\ parseDate(services[last.svc].lastHealthCheck) = now
  /\ now - parseDate(services[last.svc].registeredAt) > TtlMinutes * MsPerMinute

====
